---- MODULE Spec2Model ----
(***************************************************************************)
(* Concurrency and caching core of the vehicle client (ros_client.py /     *)
(* airsim_client.py) as documented in docs/CLIENT_ARCHITECTURE_            *)
(* OPTIMIZATION.md: two independent locks (_data_lock for telemetry,       *)
(* _command_lock for commands), a one-slot image cache read by "drain and  *)
(* put back", subscription callbacks that update the caches, and commands  *)
(* that are joined with a timeout while the command lock is held.          *)
(* Around this core: the blocking image read, the recorder (a bounded      *)
(* queue emptied by a worker, fed by the callbacks outside the lock) and   *)
(* the connection lifecycle of the mediator.  Next to the client: the web  *)
(* frontend's token handling (HttpClient, ApiService, the store), the      *)
(* store's cached drone and task lists, the Dashboard's polling, request   *)
(* cancellation and the agent console, and the agent's task and tool-call  *)
(* scheduler.  Each workload has its own specification over the same       *)
(* variables.                                                              *)
(*                                                                         *)
(* The client's time is counted in ticks of 0.05 s.  A thread that waits   *)
(* with a timeout counts the ticks it has waited; a tick cannot pass while *)
(* some waiter has reached its deadline and has not yet acted on it.  The  *)
(* store's clock (Date.now()) counts ticks of 10 s.                        *)
(***************************************************************************)
EXTENDS Integers, Sequences, FiniteSets, TLC

\* ------------------------------------------------------------------ bounds
\* Frames the image callback delivers in one run.
MaxFrames == 2
\* State updates the state callback / state monitor delivers in one run.
MaxPushes == 2
\* Caller-supplied command timeouts range over 1..MaxCmdTimeout ticks.
MaxCmdTimeout == 1
\* Caller-supplied get_latest_image_blocking timeouts: 1..MaxFetchTimeout ticks.
MaxFetchTimeout == 1
\* Depth K of the recorder's queue.
QueueDepth == 1
\* Transport connections opened in one run.
MaxOpens == 2
\* The store's clock stops here (ticks of 10 s).
MaxNow == 5
\* No more tasks than this are added locally.
MaxTasks == 2

\* --------------------------------------------------------------- constants
\* get telemetry: _data_lock.acquire(timeout=0.1), in ticks of 0.05 s.
GET_STATUS_TIMEOUT == 2
\* state monitor: _data_lock.acquire(timeout=0.05), in ticks of 0.05 s.
MONITOR_TIMEOUT == 1
\* image cache: queue maxsize=1.
IMAGE_CACHE_MAXSIZE == 1

Cmds == {"c1", "c2"}
Readers == {"r1", "r2"}
\* The reader that polls get_status() in the command workload.
StatusReaders == {"r1"}
\* Faulty variant of Dispatchers: callbacks are run on a pool of two threads.
Dispatchers_pool == {"d1", "d2"}

Dispatchers == {"d1"}
\* API threads that call connect() and disconnect().
Callers == {"a1", "a2"}
Threads == Cmds \cup Readers \cup Dispatchers \cup Callers
\* The streams the dispatcher subscribes to.
Topics == {"state", "image"}

Free == "free"
NoFrame == 0
CommandKinds == {"Sync", "Async"}
BatteryLevels == {800, 855}
FinalStates == {"Completed", "Failed", "TimedOut"}
NoResult == [kind |-> "None", message |-> "None"]
NoStatus == [success |-> FALSE, connected |-> FALSE, battery |-> 0, last_updated |-> 0,
             note |-> "None"]
NoCommand == [kind |-> "None", timeout |-> 0]
NoTake == [clean |-> FALSE, start |-> 0, prev |-> 0, prev_puts |-> -1]
\* get_latest_image_blocking: the timeout signal.
TimeoutSignal == -1
StatKeys == {"states_recorded", "images_recorded", "dropped"}
NoStats == [k \in StatKeys |-> 0]
ConnStates == {"Disconnected", "Connecting", "Connected"}
NoSubscriptions == [t \in Topics |-> 0]

\* Agent values.
ApprovalModes == {"strict", "normal", "yolo"}
TaskStates == {"SUBMITTED", "WORKING", "INPUT_REQUIRED", "COMPLETED", "FAILED", "CANCELLED"}
TerminalStates == {"COMPLETED", "FAILED", "CANCELLED"}
CallIds == {"k1", "k2"}
Operations == {"device_tool.takeoff", "device_tool.goto", "device_tool.land"}
ConfirmationOutcomes == {"proceed_once", "proceed_always", "cancel", "modify"}
NoCall == [op |-> "none", status |-> "none", outcome |-> "none"]

\* Frontend values.
NoToken == "null"
MockToken == "mock_jwt_token"
ServerTokens == {"jwt1", "jwt2"}
NoUser == "null"
MockUser == "Commander"
Requests == {"q1", "q2"}
HttpStatuses == {200, 401, 403, 500}
NoRequest == [client |-> "none", kind |-> "none", header |-> NoToken,
              stage |-> "none", status |-> 0, result |-> "none"]

VARIABLES
    data_lock,      \* owner of _data_lock / _lock, or Free
    command_lock,   \* owner of _command_lock, or Free
    pc,             \* each thread's position
    waited,         \* ticks a thread has spent in its current timed wait
    state,          \* self._state: the authoritative VehicleState
    cached_state,   \* the state snapshot slot served when the lock is busy
    image_cache,    \* self._image_cache: queue of frames, maxsize 1
    latest_image,   \* self._latest_image: the legacy mirror
    local,          \* a thread's local value (frame, battery level); for a
                    \* caller, the number of state updates applied when its
                    \* call began (a command: when it took the command lock)
    cmd,            \* the command a command thread is running
    cmd_result,     \* what the last command of a thread returned
    status_result,  \* what the last get_status() of a reader returned
    image_result,   \* what the last get_latest_image() of a reader returned
    frames_put,     \* number of frames put so far (the id of the last one)
    push_log,       \* battery level of every state update applied so far
    take_view,      \* per reader: bookkeeping of its take_latest() calls
    cache_raced,    \* the last put ran while a take_latest() was in progress
    attempts,       \* lock acquisitions a dispatcher has tried in its current
                    \* cycle, or in its last one if that one gave up its update
    is_recording,   \* RecordingStats.is_recording
    rec_queue,      \* the recorder's bounded queue of entries
    stats,          \* RecordingStats counters
    submitted,      \* entries handed to the recorder since start_recording
    written,        \* entries the recorder's worker has taken off the queue
    conn_state,     \* connection lifecycle state of the mediator
    transport_opens,\* transport connections opened so far
    subscriptions,  \* per topic: the number of live subscriptions
    conn_result     \* what the last connect()/disconnect() of a caller returned
\* Store values (frontend/store/useStore.ts).  The store's clock counts ticks
\* of 10 s; a timestamp that was never set (null) is 0, which Date.now()
\* never returns.
NoFetch == 0
\* addMessage keeps the last 100 messages.
MAX_MESSAGES == 100
\* CACHE_TTL = 30000 ms.
CACHE_TTL == 3
\* config.api.timeout = 30000 ms.
API_TIMEOUT == 3
DroneStatuses == {"FLYING", "ERROR"}
TaskStatuses == {"IN_PROGRESS", "COMPLETED"}
\* What the drone service and the task service answer: lists, or something
\* that is not an array.
NotArray == <<"not_an_array">>
ServerDroneLists == {<<"FLYING", "ERROR">>}
ServerTaskLists == {<<"IN_PROGRESS", "COMPLETED">>}
Fetchers == {"f1", "f2"}
NoFetcher == [res |-> "none", stage |-> "idle", outcome |-> "none", force |-> FALSE]
\* The Dashboard page: not shown.
NoDashboard == [mounted |-> FALSE, since |-> 0, polled |-> FALSE]
\* HttpClient: the keys of abortControllers (method and endpoint) and a
\* request slot nobody uses.
RequestKeys == {"GET_/api/drones", "GET_/api/tasks"}
NoController == "none"
NoPending == [key |-> "none", stage |-> "none", aborted |-> FALSE]
\* The agent console: the messages a user sends, and the store's first
\* message.
Chats == {"m1", "m2"}
Greeting == [role |-> "system", chat |-> "none"]
NoSystemStats == [totalDrones |-> 0, activeDrones |-> 0, onlineDrones |-> 0,
             errorDrones |-> 0, activeTasks |-> 0]


\* The web frontend (frontend/services, frontend/store).
VARIABLES
    use_mock,        \* api.ts USE_MOCK: the build answers from mock data
    ls_token,        \* localStorage 'access_token'
    http_token,      \* HttpClient.token
    api_token,       \* ApiService.token
    user,            \* store: user
    isAuthenticated, \* store: isAuthenticated
    login_pending,   \* the login form awaits api.login()
    requests,        \* per request slot: the request last sent with it
    logged_out       \* the store's logout() ran and nobody logged in since

\* The agent (uavcommander: Task and CoreToolScheduler).
VARIABLES
    approval_mode,   \* config.system.approval_mode
    task_state,      \* Task.state
    calls            \* CoreToolScheduler.pending_calls: per call id, the tool
                     \* call, its status and what the user answered

\* The store's volatile data (frontend/store/useStore.ts).
VARIABLES
    now,             \* Date.now(), in ticks
    drones,          \* store: drones, each drone by its status
    tasks,           \* store: tasks, each task by its status
    lastDronesFetch, \* store: lastDronesFetch
    lastTasksFetch,  \* store: lastTasksFetch
    isLoadingDrones, \* store: isLoadingDrones
    isLoadingTasks,  \* store: isLoadingTasks
    systemStats,     \* store: systemStats
    fetchers,        \* per caller of fetchDrones()/fetchTasks(): the call it
                     \* made last, whether it awaits the service, how it went
    loadingSince,    \* when isLoadingDrones was last set to true
    invalidated      \* the lists whose fetch timestamp invalidateCache() or
                     \* logout() has forgotten and that no fetch was called
                     \* for since

\* The pages and the HTTP client's requests (frontend/pages, HttpClient).
VARIABLES
    dashboard,        \* Dashboard.tsx: mounted, since when, and whether its
                      \* interval has fired in the current tick
    abortControllers, \* HttpClient.abortControllers: per request key, the
                      \* request whose AbortController is stored
    pending,          \* per request slot: an HttpClient request in flight,
                      \* its key, whether its controller was aborted
    isTyping,         \* AgentConsole.tsx: isTyping
    messages,         \* store: messages
    chats             \* per message the user sends: where handleSend() is

vars == <<data_lock, command_lock, pc, waited, state, cached_state, image_cache,
          latest_image, local, cmd, cmd_result, status_result, image_result,
          frames_put, push_log, take_view, cache_raced, attempts, is_recording,
          rec_queue, stats, submitted, written, conn_state, transport_opens, subscriptions,
          conn_result, use_mock, ls_token, http_token, api_token, user,
          isAuthenticated, login_pending, requests, logged_out, approval_mode,
          task_state, calls, now, drones, tasks, lastDronesFetch, lastTasksFetch,
          isLoadingDrones, isLoadingTasks, systemStats, fetchers, loadingSince,
          invalidated, dashboard, abortControllers, pending, isTyping, messages,
          chats>>

lockVars == <<data_lock, command_lock>>
cacheVars == <<state, cached_state, image_cache, latest_image, frames_put, push_log>>
cmdVars == <<cmd, cmd_result>>
readVars == <<status_result, image_result, take_view, cache_raced>>
sinkVars == <<is_recording, rec_queue, stats, submitted, written>>
connVars == <<conn_state, transport_opens, subscriptions, conn_result>>
feVars == <<use_mock, ls_token, http_token, api_token, user, isAuthenticated,
            login_pending, requests, logged_out>>
agentVars == <<approval_mode, task_state, calls>>
storeVars == <<now, drones, tasks, lastDronesFetch, lastTasksFetch, isLoadingDrones,
               isLoadingTasks, systemStats, fetchers, loadingSince, invalidated>>
otherPageVars == <<abortControllers, pending, isTyping, messages, chats>>
pageVars == <<dashboard, otherPageVars>>
uiVars == <<storeVars, pageVars>>
appVars == <<feVars, agentVars, uiVars>>
extVars == <<attempts, sinkVars, connVars, appVars>>

\* The client as constructed: locks free, caches empty, no recording.
InitCore ==
    /\ data_lock = Free
    /\ command_lock = Free
    /\ pc = [t \in Threads |-> "idle"]
    /\ waited = [t \in Threads |-> 0]
    /\ state = [battery |-> 855, last_updated |-> 0]
    /\ cached_state = [battery |-> 855, last_updated |-> 0]
    /\ image_cache = <<>>
    /\ latest_image = NoFrame
    /\ local = [t \in Threads |-> 0]
    /\ cmd = [c \in Cmds |-> NoCommand]
    /\ cmd_result = [c \in Cmds |-> NoResult]
    /\ status_result = [r \in Readers |-> NoStatus]
    /\ image_result = [r \in Readers |-> NoFrame]
    /\ frames_put = 0
    /\ push_log = <<>>
    /\ take_view = [r \in Readers |-> NoTake]
    /\ cache_raced = FALSE
    /\ attempts = [d \in Dispatchers |-> 0]
    /\ is_recording = FALSE
    /\ rec_queue = <<>>
    /\ stats = NoStats
    /\ submitted = 0
    /\ written = 0
    /\ conn_result = [a \in Callers |-> "None"]

\* The store's volatile data as created (useStore.ts 115-118, 154-156,
\* 259-265): nothing fetched, nothing loading.
StoreFresh ==
    /\ drones = <<>>
    /\ tasks = <<>>
    /\ lastDronesFetch = NoFetch
    /\ lastTasksFetch = NoFetch
    /\ isLoadingDrones = FALSE
    /\ isLoadingTasks = FALSE
    /\ systemStats = NoSystemStats
    /\ fetchers = [f \in Fetchers |-> NoFetcher]
    /\ loadingSince = NoFetch
    /\ invalidated = {}

\* No page shown, no request under way, the console with the store's
\* greeting (Dashboard.tsx, HttpClient constructor, useStore.ts 199-205).
PagesFresh ==
    /\ dashboard = NoDashboard
    /\ abortControllers = [k \in RequestKeys |-> NoController]
    /\ pending = [q \in Requests |-> NoPending]
    /\ isTyping = FALSE
    /\ messages = <<Greeting>>
    /\ chats = [c \in Chats |-> "none"]

\* The frontend in a fresh browser: nothing stored, nobody logged in
\* (useStore.ts 84-85, HttpClient and ApiService constructors).
FrontendFresh ==
    /\ now = 1
    /\ StoreFresh
    /\ PagesFresh
    /\ ls_token = NoToken
    /\ http_token = NoToken
    /\ api_token = NoToken
    /\ user = NoUser
    /\ isAuthenticated = FALSE
    /\ login_pending = FALSE
    /\ requests = [q \in Requests |-> NoRequest]
    /\ logged_out = FALSE

\* A task as created, no tool call scheduled (Task.__init__).
AgentFresh ==
    /\ task_state = "SUBMITTED"
    /\ calls = [k \in CallIds |-> NoCall]

\* The client next to a frontend and an agent nobody uses, in the build as
\* shipped (USE_MOCK = true, approval mode NORMAL by default).
InitClient ==
    /\ InitCore
    /\ FrontendFresh
    /\ use_mock = TRUE
    /\ AgentFresh
    /\ approval_mode = "normal"

\* The workloads on telemetry and commands start from a connected client
\* with every stream subscribed.
Init ==
    /\ InitClient
    /\ conn_state = "Connected"
    /\ transport_opens = 1
    /\ subscriptions = [t \in Topics |-> 1]

\* The mediator as constructed: not connected.
InitMediator ==
    /\ InitClient
    /\ conn_state = "Disconnected"
    /\ transport_opens = 0
    /\ subscriptions = NoSubscriptions

\* ------------------------------------------------------------ timed waits
\* The timeout of the wait thread t is in, in ticks.
Deadline(t) ==
    IF t \in Readers
    THEN (IF pc[t] = "gb_wait" THEN local[t] ELSE GET_STATUS_TIMEOUT)
    ELSE IF t \in Dispatchers THEN MONITOR_TIMEOUT
    ELSE IF t \in Cmds THEN cmd[t].timeout
    ELSE 0

\* Threads that are waiting with a timeout: a reader or the state monitor on
\* _data_lock.acquire(timeout=...), a command on its transport call or join.
TimedWaiting(t) ==
    \/ t \in Readers /\ pc[t] \in {"gs_wait", "gb_wait"}
    \/ t \in Dispatchers /\ pc[t] = "sp_wait"
    \/ t \in Cmds /\ (\/ pc[t] = "Pending"
                      \/ pc[t] = "Issued" /\ cmd[t].kind = "Sync")

Expired(t) == waited[t] >= Deadline(t)

\* 0.05 s pass for every thread in a timed wait.  Time does not pass a
\* deadline: the waiter that reached it acts first.
Tick ==
    /\ \E t \in Threads : TimedWaiting(t)
    /\ \A t \in Threads : TimedWaiting(t) => ~Expired(t)
    /\ waited' = [t \in Threads |-> IF TimedWaiting(t) THEN waited[t] + 1 ELSE waited[t]]
    /\ UNCHANGED <<extVars, lockVars, pc, cacheVars, local, cmdVars, readVars>>

\* ---------------------------------------------------------------- commands
\* A caller invokes a command (publish, call_service, takeoff, ...): the
\* request is queued behind the command lock.
CmdInvoke(c) ==
    /\ pc[c] \in {"idle"} \cup FinalStates
    /\ \E k \in CommandKinds, to \in 1..MaxCmdTimeout :
         cmd' = [cmd EXCEPT ![c] = [kind |-> k, timeout |-> to]]
    /\ pc' = [pc EXCEPT ![c] = "Queued"]
    /\ cmd_result' = [cmd_result EXCEPT ![c] = NoResult]
    /\ UNCHANGED <<extVars, lockVars, waited, cacheVars, local, readVars>>

\* Faulty variant of CmdAcquire: the command proceeds without waiting for the lock.
CmdAcquire_no_wait(c) ==
    /\ pc[c] = "Queued"
    /\ command_lock' = c
    /\ pc' = [pc EXCEPT ![c] = "Issued"]
    /\ waited' = [waited EXCEPT ![c] = 0]
    /\ local' = [local EXCEPT ![c] = Len(push_log)]
    /\ UNCHANGED <<extVars, data_lock, cacheVars, cmdVars, readVars>>

\* with self._command_lock: blocks until the lock is free.
CmdAcquire(c) ==
    /\ pc[c] = "Queued"
    /\ command_lock = Free
    /\ command_lock' = c
    /\ pc' = [pc EXCEPT ![c] = "Issued"]
    /\ waited' = [waited EXCEPT ![c] = 0]
    /\ local' = [local EXCEPT ![c] = Len(push_log)]
    /\ UNCHANGED <<extVars, data_lock, cacheVars, cmdVars, readVars>>

\* Faulty variant of CmdDispatch: the command also takes the telemetry lock while it
\* holds the command lock.
CmdDispatch_takes_data_lock(c) ==
    /\ pc[c] = "Issued"
    /\ cmd[c].kind = "Async"
    /\ command_lock = c
    /\ data_lock = Free
    /\ data_lock' = c
    /\ pc' = [pc EXCEPT ![c] = "Pending"]
    /\ waited' = [waited EXCEPT ![c] = 0]
    /\ UNCHANGED <<extVars, command_lock, cacheVars, local, cmdVars, readVars>>

\* future = self._client.takeoffAsync(): an async command is dispatched and
\* is then joined while the command lock stays held.
CmdDispatch(c) ==
    /\ pc[c] = "Issued"
    /\ cmd[c].kind = "Async"
    /\ command_lock = c
    /\ pc' = [pc EXCEPT ![c] = "Pending"]
    /\ waited' = [waited EXCEPT ![c] = 0]
    /\ UNCHANGED <<extVars, lockVars, cacheVars, local, cmdVars, readVars>>

\* The structured result (kind + message) of a command that ended in `final`.
CommandResult(final) ==
    CASE final = "Completed" -> [kind |-> "Ok", message |-> "completed"]
      [] final = "Failed"    -> [kind |-> "CommandFailed", message |-> "transport reported failure"]
      [] final = "TimedOut"  -> [kind |-> "CommandTimedOut", message |-> "join exceeded timeout"]

\* Faulty variant of CmdLeave: the lock is released on the success path only.
CmdLeave_release_on_success_only(c, final) ==
    /\ command_lock = c
    /\ command_lock' = IF final = "Completed" THEN Free ELSE c
    /\ pc' = [pc EXCEPT ![c] = final]
    /\ cmd_result' = [cmd_result EXCEPT ![c] = CommandResult(final)]
    /\ cmd' = [cmd EXCEPT ![c] = NoCommand]
    /\ waited' = [waited EXCEPT ![c] = 0]
    /\ local' = [local EXCEPT ![c] = 0]
    /\ UNCHANGED <<extVars, data_lock, cacheVars, readVars>>

\* Leaving the `with self._command_lock:` block: the lock is released and
\* the result is returned to the caller; the request is done with.
CmdLeave(c, final) ==
    /\ command_lock = c
    /\ command_lock' = Free
    /\ pc' = [pc EXCEPT ![c] = final]
    /\ cmd_result' = [cmd_result EXCEPT ![c] = CommandResult(final)]
    /\ cmd' = [cmd EXCEPT ![c] = NoCommand]
    /\ waited' = [waited EXCEPT ![c] = 0]
    /\ local' = [local EXCEPT ![c] = 0]
    /\ UNCHANGED <<extVars, data_lock, cacheVars, readVars>>

\* The command is waiting for the transport: a sync call in flight, or the
\* join of an async command.
CmdInFlight(c) ==
    \/ pc[c] = "Issued" /\ cmd[c].kind = "Sync"
    \/ pc[c] = "Pending"

\* Faulty variant of CmdResolve: an async command is resolved straight from
\* Issued, without having been dispatched and joined.
CmdResolve_skips_join(c) ==
    /\ pc[c] \in {"Issued", "Pending"}
    /\ \E final \in {"Completed", "Failed"} : CmdLeave(c, final)

\* The transport answers (success or failure) before the timeout.
CmdResolve(c) ==
    /\ CmdInFlight(c)
    /\ \E final \in {"Completed", "Failed"} : CmdLeave(c, final)

\* Faulty variant of CmdTimeout: the timeout is reported but the lock stays held.
CmdTimeout_keeps_lock(c) ==
    /\ CmdInFlight(c)
    /\ Expired(c)
    /\ command_lock = c
    /\ pc' = [pc EXCEPT ![c] = "TimedOut"]
    /\ cmd_result' = [cmd_result EXCEPT ![c] = CommandResult("TimedOut")]
    /\ cmd' = [cmd EXCEPT ![c] = NoCommand]
    /\ waited' = [waited EXCEPT ![c] = 0]
    /\ local' = [local EXCEPT ![c] = 0]
    /\ UNCHANGED <<extVars, lockVars, cacheVars, readVars>>

\* self._join_async_future(future, timeout): the wait exceeded the
\* caller-supplied timeout; the underlying operation is not cancelled.
CmdTimeout(c) ==
    /\ CmdInFlight(c)
    /\ Expired(c)
    /\ CmdLeave(c, "TimedOut")

\* ----------------------------------------------------------------- readers
\* get_status(): the caller starts to acquire the telemetry lock.
GetStatusCall(r) ==
    /\ pc[r] = "idle"
    /\ pc' = [pc EXCEPT ![r] = "gs_wait"]
    /\ waited' = [waited EXCEPT ![r] = 0]
    /\ local' = [local EXCEPT ![r] = Len(push_log)]
    /\ status_result' = [status_result EXCEPT ![r] = NoStatus]
    /\ image_result' = [image_result EXCEPT ![r] = NoFrame]
    /\ take_view' = [take_view EXCEPT ![r] = NoTake]
    /\ UNCHANGED <<extVars, lockVars, cacheVars, cmdVars, cache_raced>>

\* Faulty variant of GetStatusAcquire: reads share one lock with the commands (the
\* single _api_lock), so a read needs the command lock to be free as well.
GetStatusAcquire_api_lock(r) ==
    /\ pc[r] = "gs_wait"
    /\ data_lock = Free
    /\ command_lock = Free
    /\ data_lock' = r
    /\ pc' = [pc EXCEPT ![r] = "gs_locked"]
    /\ waited' = [waited EXCEPT ![r] = 0]
    /\ UNCHANGED <<extVars, command_lock, cacheVars, local, cmdVars, readVars>>

\* self._data_lock.acquire(timeout=0.1) succeeds.
GetStatusAcquire(r) ==
    /\ pc[r] = "gs_wait"
    /\ data_lock = Free
    /\ data_lock' = r
    /\ pc' = [pc EXCEPT ![r] = "gs_locked"]
    /\ waited' = [waited EXCEPT ![r] = 0]
    /\ UNCHANGED <<extVars, command_lock, cacheVars, local, cmdVars, readVars>>

\* Faulty variant of GetStatusBusy: the contention is reported as an error.
GetStatusBusy_error(r) ==
    /\ pc[r] = "gs_wait"
    /\ Expired(r)
    /\ data_lock # Free
    /\ status_result' = [status_result EXCEPT ![r] =
           [success |-> FALSE, connected |-> conn_state = "Connected", battery |-> 0,
            last_updated |-> 0, note |-> "Busy"]]
    /\ pc' = [pc EXCEPT ![r] = "idle"]
    /\ waited' = [waited EXCEPT ![r] = 0]
    /\ local' = [local EXCEPT ![r] = 0]
    /\ UNCHANGED <<extVars, lockVars, cacheVars, cmdVars, image_result, take_view, cache_raced>>

\* The acquire timed out: return the cached state, marked, and no error.
GetStatusBusy(r) ==
    /\ pc[r] = "gs_wait"
    /\ Expired(r)
    /\ data_lock # Free
    /\ status_result' = [status_result EXCEPT ![r] =
           [success |-> TRUE, connected |-> conn_state = "Connected",
            battery |-> cached_state.battery,
            last_updated |-> cached_state.last_updated,
            note |-> "Using cached state (API busy)"]]
    /\ pc' = [pc EXCEPT ![r] = "idle"]
    /\ waited' = [waited EXCEPT ![r] = 0]
    /\ local' = [local EXCEPT ![r] = 0]
    /\ UNCHANGED <<extVars, lockVars, cacheVars, cmdVars, image_result, take_view, cache_raced>>

\* Under the lock: read the state, then release the lock.
GetStatusRead(r) ==
    /\ pc[r] = "gs_locked"
    /\ data_lock = r
    /\ status_result' = [status_result EXCEPT ![r] =
           [success |-> TRUE, connected |-> conn_state = "Connected",
            battery |-> state.battery,
            last_updated |-> state.last_updated, note |-> "live"]]
    /\ data_lock' = Free
    /\ pc' = [pc EXCEPT ![r] = "idle"]
    /\ local' = [local EXCEPT ![r] = 0]
    /\ UNCHANGED <<extVars, command_lock, waited, cacheVars, cmdVars, image_result, take_view, cache_raced>>

\* The frame a drain of queue q keeps: the latest one, or NoFrame.
DrainLatest(q) == IF Len(q) = 0 THEN NoFrame ELSE q[Len(q)]

\* queue.put_nowait(v) on a queue of maxsize IMAGE_CACHE_MAXSIZE: a full
\* queue refuses the item.
PutNowait(q, v) == IF Len(q) < IMAGE_CACHE_MAXSIZE THEN Append(q, v) ELSE q

\* Faulty variant of SlotPut: a full slot keeps its unread value and the new
\* one is lost.
SlotPut_keeps_unread(q, v) == PutNowait(q, v)

\* SlotCache.put(v): overwrite whatever is in the slot.
SlotPut(q, v) == <<v>>

\* get_latest_image(), first half: take every frame out, keep the latest.
TakeDrain(r) ==
    /\ pc[r] = "idle"
    /\ local' = [local EXCEPT ![r] = DrainLatest(image_cache)]
    /\ image_cache' = <<>>
    /\ pc' = [pc EXCEPT ![r] = "gi_putback"]
    /\ take_view' = [take_view EXCEPT ![r] =
           [clean |-> ~cache_raced /\ \A o \in Readers : pc[o] # "gi_putback",
            start |-> frames_put,
            prev |-> image_result[r],
            prev_puts |-> IF take_view[r].clean THEN take_view[r].start ELSE -1]]
    /\ status_result' = [status_result EXCEPT ![r] = NoStatus]
    /\ UNCHANGED <<extVars, lockVars, waited, state, cached_state, latest_image, frames_put,
                   push_log, cmdVars, image_result, cache_raced>>

\* Faulty variant of TakePutBack: the frame taken out is not put back.
TakePutBack_no_put_back(r) ==
    /\ pc[r] = "gi_putback"
    /\ image_result' = [image_result EXCEPT ![r] = local[r]]
    /\ local' = [local EXCEPT ![r] = 0]
    /\ pc' = [pc EXCEPT ![r] = "idle"]
    /\ UNCHANGED <<extVars, lockVars, waited, cacheVars, cmdVars, status_result, take_view, cache_raced>>

\* get_latest_image(), second half: put the kept frame back and return it.
TakePutBack(r) ==
    /\ pc[r] = "gi_putback"
    /\ image_cache' = IF local[r] = NoFrame THEN image_cache
                      ELSE PutNowait(image_cache, local[r])
    /\ image_result' = [image_result EXCEPT ![r] = local[r]]
    /\ local' = [local EXCEPT ![r] = 0]
    /\ pc' = [pc EXCEPT ![r] = "idle"]
    /\ UNCHANGED <<extVars, lockVars, waited, state, cached_state, latest_image, frames_put,
                   push_log, cmdVars, status_result, take_view, cache_raced>>

\* get_latest_image_blocking(timeout): the call begins and notes how many
\* frames have been put so far; it waits for the next one.
TakeBlockingCall(r) ==
    /\ pc[r] = "idle"
    /\ \E tmo \in 1..MaxFetchTimeout : local' = [local EXCEPT ![r] = tmo]
    /\ waited' = [waited EXCEPT ![r] = 0]
    /\ pc' = [pc EXCEPT ![r] = "gb_wait"]
    /\ take_view' = [take_view EXCEPT ![r] = [NoTake EXCEPT !.start = frames_put]]
    /\ image_result' = [image_result EXCEPT ![r] = NoFrame]
    /\ status_result' = [status_result EXCEPT ![r] = NoStatus]
    /\ UNCHANGED <<extVars, lockVars, cacheVars, cmdVars, cache_raced>>

\* Faulty variant of TakeBlockingWake: a blocking get on the queue, which
\* hands out whatever the slot holds.
TakeBlockingWake_returns_cached(r) ==
    /\ pc[r] = "gb_wait"
    /\ Len(image_cache) > 0
    /\ image_result' = [image_result EXCEPT ![r] = image_cache[1]]
    /\ pc' = [pc EXCEPT ![r] = "idle"]
    /\ local' = [local EXCEPT ![r] = 0]
    /\ waited' = [waited EXCEPT ![r] = 0]
    /\ UNCHANGED <<extVars, lockVars, cacheVars, cmdVars, status_result, take_view,
                   cache_raced>>

\* A frame was put since the call began: return the most recent one.
TakeBlockingWake(r) ==
    /\ pc[r] = "gb_wait"
    /\ frames_put > take_view[r].start
    /\ image_result' = [image_result EXCEPT ![r] = frames_put]
    /\ pc' = [pc EXCEPT ![r] = "idle"]
    /\ local' = [local EXCEPT ![r] = 0]
    /\ waited' = [waited EXCEPT ![r] = 0]
    /\ UNCHANGED <<extVars, lockVars, cacheVars, cmdVars, status_result, take_view,
                   cache_raced>>

\* The timeout elapsed and no frame was put: return the timeout signal.
TakeBlockingTimeout(r) ==
    /\ pc[r] = "gb_wait"
    /\ Expired(r)
    /\ frames_put = take_view[r].start
    /\ image_result' = [image_result EXCEPT ![r] = TimeoutSignal]
    /\ pc' = [pc EXCEPT ![r] = "idle"]
    /\ local' = [local EXCEPT ![r] = 0]
    /\ waited' = [waited EXCEPT ![r] = 0]
    /\ UNCHANGED <<extVars, lockVars, cacheVars, cmdVars, status_result, take_view,
                   cache_raced>>

ReaderStep(r) ==
    \/ GetStatusAcquire(r)
    \/ GetStatusBusy(r)
    \/ GetStatusRead(r)
    \/ TakePutBack(r)

\* ------------------------------------------------------------- connection
\* Faulty variant of ConnectCall: connect() does not look at the connection
\* state and opens the transport again.
ConnectCall_always_opens(a) ==
    /\ pc[a] = "idle"
    /\ transport_opens < MaxOpens
    /\ conn_state' = "Connecting"
    /\ transport_opens' = transport_opens + 1
    /\ conn_result' = [conn_result EXCEPT ![a] = "Initiated"]
    /\ pc' = [pc EXCEPT ![a] = "cn_done"]
    /\ UNCHANGED <<appVars, lockVars, waited, cacheVars, local, cmdVars, readVars, attempts,
                   sinkVars, subscriptions>>

\* connect(transport_config): idempotent when connected, refused while an
\* attempt is in flight, otherwise the attempt is started and completes
\* asynchronously.
ConnectCall(a) ==
    /\ pc[a] = "idle"
    /\ \/ /\ conn_state = "Connected"
          /\ conn_result' = [conn_result EXCEPT ![a] = "Ok"]
          /\ UNCHANGED <<conn_state, transport_opens>>
       \/ /\ conn_state = "Connecting"
          /\ conn_result' = [conn_result EXCEPT ![a] = "AlreadyConnecting"]
          /\ UNCHANGED <<conn_state, transport_opens>>
       \/ /\ conn_state = "Disconnected"
          /\ transport_opens < MaxOpens
          /\ conn_state' = "Connecting"
          /\ transport_opens' = transport_opens + 1
          /\ conn_result' = [conn_result EXCEPT ![a] = "Initiated"]
    /\ pc' = [pc EXCEPT ![a] = "cn_done"]
    /\ UNCHANGED <<appVars, lockVars, waited, cacheVars, local, cmdVars, readVars, attempts,
                   sinkVars, subscriptions>>

\* Faulty variant of TransportUp: the completion of an attempt is applied
\* even though disconnect() has ended the attempt in the meantime.
TransportUp_after_disconnect ==
    /\ conn_state \in {"Connecting", "Disconnected"}
    /\ transport_opens > 0
    /\ conn_state' = "Connected"
    /\ subscriptions' = [t \in Topics |-> 1]
    /\ UNCHANGED <<appVars, lockVars, pc, waited, cacheVars, local, cmdVars, readVars, attempts,
                   sinkVars, transport_opens, conn_result>>

\* The transport is up: the attempt succeeds and the dispatcher subscribes
\* to every stream.
TransportUp ==
    /\ conn_state = "Connecting"
    /\ conn_state' = "Connected"
    /\ subscriptions' = [t \in Topics |-> subscriptions[t] + 1]
    /\ UNCHANGED <<appVars, lockVars, pc, waited, cacheVars, local, cmdVars, readVars, attempts,
                   sinkVars, transport_opens, conn_result>>

\* The attempt fails: the transport could not be established.
TransportFail ==
    /\ conn_state = "Connecting"
    /\ conn_state' = "Disconnected"
    /\ UNCHANGED <<appVars, lockVars, pc, waited, cacheVars, local, cmdVars, readVars, attempts,
                   sinkVars, transport_opens, subscriptions, conn_result>>

\* The established transport is lost: the mediator is no longer connected
\* and the caches are invalidated.
TransportLost ==
    /\ conn_state = "Connected"
    /\ conn_state' = "Disconnected"
    /\ subscriptions' = NoSubscriptions
    /\ image_cache' = <<>>
    /\ latest_image' = NoFrame
    /\ UNCHANGED <<appVars, lockVars, pc, waited, state, cached_state, frames_put, push_log,
                   local, cmdVars, readVars, attempts, sinkVars, transport_opens,
                   conn_result>>

\* Faulty variant of DisconnectCall: disconnect() takes the command lock
\* before it tears the connection down.
DisconnectCall_waits_for_command(a) ==
    /\ pc[a] = "idle"
    /\ command_lock = Free
    /\ conn_state' = "Disconnected"
    /\ subscriptions' = NoSubscriptions
    /\ image_cache' = <<>>
    /\ latest_image' = NoFrame
    /\ is_recording' = FALSE
    /\ written' = written + Len(rec_queue)
    /\ rec_queue' = <<>>
    /\ conn_result' = [conn_result EXCEPT ![a] = "Disconnected"]
    /\ pc' = [pc EXCEPT ![a] = "dc_done"]
    /\ UNCHANGED <<appVars, lockVars, waited, state, cached_state, frames_put, push_log, local,
                   cmdVars, readVars, attempts, stats, submitted, transport_opens>>

\* Faulty variant of DisconnectCall: a mediator that is not connected
\* returns at once, without clearing anything.
DisconnectCall_early_return(a) ==
    /\ pc[a] = "idle"
    /\ conn_result' = [conn_result EXCEPT ![a] = "Disconnected"]
    /\ pc' = [pc EXCEPT ![a] = "dc_done"]
    /\ IF conn_state = "Disconnected"
       THEN UNCHANGED <<conn_state, subscriptions, image_cache, latest_image,
                        is_recording, rec_queue, written>>
       ELSE /\ conn_state' = "Disconnected"
            /\ subscriptions' = NoSubscriptions
            /\ image_cache' = <<>>
            /\ latest_image' = NoFrame
            /\ is_recording' = FALSE
            /\ written' = written + Len(rec_queue)
            /\ rec_queue' = <<>>
    /\ UNCHANGED <<appVars, lockVars, waited, state, cached_state, frames_put, push_log, local,
                   cmdVars, readVars, attempts, stats, submitted, transport_opens>>

\* disconnect(): tear down the subscriptions, clear the caches, stop and
\* flush the recording; the same in every connection state.
DisconnectCall(a) ==
    /\ pc[a] = "idle"
    /\ conn_state' = "Disconnected"
    /\ subscriptions' = NoSubscriptions
    /\ image_cache' = <<>>
    /\ latest_image' = NoFrame
    /\ is_recording' = FALSE
    /\ written' = written + Len(rec_queue)
    /\ rec_queue' = <<>>
    /\ conn_result' = [conn_result EXCEPT ![a] = "Disconnected"]
    /\ pc' = [pc EXCEPT ![a] = "dc_done"]
    /\ UNCHANGED <<appVars, lockVars, waited, state, cached_state, frames_put, push_log, local,
                   cmdVars, readVars, attempts, stats, submitted, transport_opens>>

\* connect() or disconnect() has returned to its caller.
CallerReturn(a) ==
    /\ pc[a] \in {"cn_done", "dc_done"}
    /\ pc' = [pc EXCEPT ![a] = "idle"]
    /\ UNCHANGED <<extVars, lockVars, waited, cacheVars, local, cmdVars, readVars>>

\* ---------------------------------------------------------- RecordingSink
\* Faulty variant of SinkSubmit: an entry that finds the queue full is lost
\* without being counted.
SinkSubmit_silent_drop(kind) ==
    IF ~is_recording
    THEN UNCHANGED sinkVars
    ELSE /\ submitted' = submitted + 1
         /\ IF Len(rec_queue) < QueueDepth
            THEN /\ rec_queue' = Append(rec_queue, kind)
                 /\ stats' = [stats EXCEPT ![kind] = @ + 1]
            ELSE UNCHANGED <<rec_queue, stats>>
         /\ UNCHANGED <<is_recording, written>>

\* Faulty variant of SinkSubmit: entries are counted whether or not a
\* recording is running.
SinkSubmit_counts_when_stopped(kind) ==
    /\ submitted' = submitted + 1
    /\ IF Len(rec_queue) < QueueDepth
       THEN /\ rec_queue' = IF is_recording THEN Append(rec_queue, kind) ELSE rec_queue
            /\ stats' = [stats EXCEPT ![kind] = @ + 1]
       ELSE /\ stats' = [stats EXCEPT !["dropped"] = @ + 1]
            /\ UNCHANGED rec_queue
    /\ UNCHANGED <<is_recording, written>>

\* record_state / record_image / record_pointcloud: try to enqueue without
\* waiting; a full queue drops the entry and counts it.  Calls made while
\* no recording is running are ignored.
SinkSubmit(kind) ==
    IF ~is_recording
    THEN UNCHANGED sinkVars
    ELSE /\ submitted' = submitted + 1
         /\ IF Len(rec_queue) < QueueDepth
            THEN /\ rec_queue' = Append(rec_queue, kind)
                 /\ stats' = [stats EXCEPT ![kind] = @ + 1]
            ELSE /\ stats' = [stats EXCEPT !["dropped"] = @ + 1]
                 /\ UNCHANGED rec_queue
         /\ UNCHANGED <<is_recording, written>>

\* start_recording(options): the counters are reset and entries are
\* accepted from now on.
StartRecording ==
    /\ is_recording' = TRUE
    /\ rec_queue' = <<>>
    /\ stats' = NoStats
    /\ submitted' = 0
    /\ written' = 0
    /\ UNCHANGED <<appVars, lockVars, pc, waited, cacheVars, local, cmdVars, readVars,
                   attempts, connVars>>

\* stop_recording(): the queue is drained and closed, the counters are final.
StopRecording ==
    /\ is_recording
    /\ is_recording' = FALSE
    /\ written' = written + Len(rec_queue)
    /\ rec_queue' = <<>>
    /\ UNCHANGED <<appVars, lockVars, pc, waited, cacheVars, local, cmdVars, readVars,
                   attempts, stats, submitted, connVars>>

\* The background worker takes the oldest entry off the queue and writes it.
SinkWorker ==
    /\ is_recording
    /\ Len(rec_queue) > 0
    /\ rec_queue' = Tail(rec_queue)
    /\ written' = written + 1
    /\ UNCHANGED <<appVars, lockVars, pc, waited, cacheVars, local, cmdVars, readVars,
                   attempts, is_recording, stats, submitted, connVars>>

\* -------------------------------------------------------------- dispatcher
\* Image messages that have arrived so far: those already in the cache and
\* those a callback still holds.
ImagesArrived == frames_put + Cardinality({e \in Dispatchers : pc[e] = "im_put"})

\* A state message arrives (ROS subscription callback).
StateCallback(d) ==
    /\ pc[d] = "idle"
    /\ subscriptions["state"] > 0
    /\ Len(push_log) < MaxPushes
    /\ \E v \in BatteryLevels : local' = [local EXCEPT ![d] = v]
    /\ pc' = [pc EXCEPT ![d] = "st_wait"]
    /\ attempts' = [attempts EXCEPT ![d] = 1]
    /\ UNCHANGED <<sinkVars, connVars, appVars, lockVars, waited, cacheVars, cmdVars, readVars>>

\* with self._lock: the callback blocks until the lock is free.
StateCallbackAcquire(d) ==
    /\ pc[d] = "st_wait"
    /\ data_lock = Free
    /\ data_lock' = d
    /\ pc' = [pc EXCEPT ![d] = "st_locked"]
    /\ UNCHANGED <<extVars, command_lock, waited, cacheVars, local, cmdVars, readVars>>

\* A cycle of the state monitor loop starts (polling client).
StatePoll(d) ==
    /\ pc[d] = "idle"
    /\ conn_state = "Connected"
    /\ Len(push_log) < MaxPushes
    /\ pc' = [pc EXCEPT ![d] = "sp_wait"]
    /\ waited' = [waited EXCEPT ![d] = 0]
    /\ attempts' = [attempts EXCEPT ![d] = 1]
    /\ UNCHANGED <<sinkVars, connVars, appVars, lockVars, cacheVars, local, cmdVars, readVars>>

\* self._data_lock.acquire(timeout=0.05) succeeds;
\* state = self._client.getMultirotorState().
StatePollAcquire(d) ==
    /\ pc[d] = "sp_wait"
    /\ data_lock = Free
    /\ data_lock' = d
    /\ \E v \in BatteryLevels : local' = [local EXCEPT ![d] = v]
    /\ pc' = [pc EXCEPT ![d] = "st_locked"]
    /\ waited' = [waited EXCEPT ![d] = 0]
    /\ UNCHANGED <<extVars, command_lock, cacheVars, cmdVars, readVars>>

\* Faulty variant of StatePollSkip: the first timeout is followed by one
\* more acquisition attempt; only the second timeout drops the update.
StatePollSkip_retries_once(d) ==
    /\ pc[d] = "sp_wait"
    /\ Expired(d)
    /\ data_lock # Free
    /\ pc' = [pc EXCEPT ![d] = IF attempts[d] < 2 THEN "sp_wait" ELSE "idle"]
    /\ waited' = [waited EXCEPT ![d] = 0]
    /\ attempts' = [attempts EXCEPT ![d] = IF attempts[d] < 2 THEN attempts[d] + 1 ELSE @]
    /\ UNCHANGED <<sinkVars, connVars, appVars, lockVars, cacheVars, local, cmdVars, readVars>>

\* The acquire timed out: skip this update (continue).
StatePollSkip(d) ==
    /\ pc[d] = "sp_wait"
    /\ Expired(d)
    /\ data_lock # Free
    /\ pc' = [pc EXCEPT ![d] = "idle"]
    /\ waited' = [waited EXCEPT ![d] = 0]
    /\ UNCHANGED <<extVars, lockVars, cacheVars, local, cmdVars, readVars>>

\* Faulty variant of StateUpdate: last_updated is taken from the stamp the
\* message carries, which may be older than the one applied before.
StateUpdate_message_stamp(d) ==
    /\ pc[d] = "st_locked"
    /\ data_lock = d
    /\ \E stamp \in 0..(Len(push_log) + 1) :
           state' = [battery |-> local[d], last_updated |-> stamp]
    /\ pc' = [pc EXCEPT ![d] = "st_swap"]
    /\ UNCHANGED <<extVars, lockVars, waited, cached_state, image_cache, latest_image,
                   frames_put, push_log, local, cmdVars, readVars>>

\* Inside the lock: update the fields of self._state.
StateUpdate(d) ==
    /\ pc[d] = "st_locked"
    /\ data_lock = d
    /\ state' = [battery |-> local[d], last_updated |-> Len(push_log) + 1]
    /\ pc' = [pc EXCEPT ![d] = "st_swap"]
    /\ UNCHANGED <<extVars, lockVars, waited, cached_state, image_cache, latest_image,
                   frames_put, push_log, local, cmdVars, readVars>>

\* Faulty variant of StateSwap: the snapshot slot is not replaced.
StateSwap_stale_snapshot(d) ==
    /\ pc[d] = "st_swap"
    /\ data_lock = d
    /\ push_log' = Append(push_log, state.battery)
    /\ data_lock' = Free
    /\ pc' = [pc EXCEPT ![d] = "st_record"]
    /\ UNCHANGED <<extVars, command_lock, waited, state, cached_state, image_cache,
                   latest_image, frames_put, local, cmdVars, readVars>>

\* Faulty variant of StateSwap: the snapshot is recorded inside the `with
\* self._lock:` block, so the lock is still held when the recorder is called.
StateSwap_record_inside_lock(d) ==
    /\ pc[d] = "st_swap"
    /\ data_lock = d
    /\ cached_state' = state
    /\ push_log' = Append(push_log, state.battery)
    /\ pc' = [pc EXCEPT ![d] = "st_record"]
    /\ UNCHANGED <<extVars, lockVars, waited, state, image_cache, latest_image,
                   frames_put, local, cmdVars, readVars>>

\* state_snapshot = copy.copy(self._state); the lock is released.
StateSwap(d) ==
    /\ pc[d] = "st_swap"
    /\ data_lock = d
    /\ cached_state' = state
    /\ push_log' = Append(push_log, state.battery)
    /\ data_lock' = Free
    /\ pc' = [pc EXCEPT ![d] = "st_record"]
    /\ UNCHANGED <<extVars, command_lock, waited, state, image_cache, latest_image,
                   frames_put, local, cmdVars, readVars>>

\* Outside the lock: self._recorder.record_state(state_snapshot, ...).
StateRecord(d) ==
    /\ pc[d] = "st_record"
    /\ SinkSubmit("states_recorded")
    /\ pc' = [pc EXCEPT ![d] = "idle"]
    /\ attempts' = [attempts EXCEPT ![d] = 0]
    /\ UNCHANGED <<connVars, appVars, lockVars, waited, cacheVars, local, cmdVars, readVars>>

\* An image message arrives and is decoded, outside any lock.
ImageCallback(d) ==
    /\ pc[d] = "idle"
    /\ subscriptions["image"] > 0
    /\ ImagesArrived < MaxFrames
    /\ local' = [local EXCEPT ![d] = ImagesArrived + 1]
    /\ pc' = [pc EXCEPT ![d] = "im_put"]
    /\ UNCHANGED <<extVars, lockVars, waited, cacheVars, cmdVars, readVars>>

\* Faulty variant of ImagePut: put() instead of put_nowait(): the producer waits while
\* the cache is full.
ImagePut_blocking(d) ==
    /\ pc[d] = "im_put"
    /\ Len(image_cache) < IMAGE_CACHE_MAXSIZE
    /\ image_cache' = Append(image_cache, local[d])
    /\ frames_put' = local[d]
    /\ take_view' = [r \in Readers |->
           IF pc[r] = "gi_putback" THEN [take_view[r] EXCEPT !.clean = FALSE]
           ELSE take_view[r]]
    /\ cache_raced' = \E r \in Readers : pc[r] = "gi_putback"
    /\ pc' = [pc EXCEPT ![d] = "im_wait"]
    /\ attempts' = [attempts EXCEPT ![d] = 1]
    /\ UNCHANGED <<sinkVars, connVars, appVars, lockVars, waited, state, cached_state, latest_image, push_log,
                   local, cmdVars, status_result, image_result>>

\* 1. self._image_cache.put_nowait((frame, timestamp)): update the cache.
ImagePut(d) ==
    /\ pc[d] = "im_put"
    /\ image_cache' = SlotPut(image_cache, local[d])
    /\ frames_put' = local[d]
    /\ take_view' = [r \in Readers |->
           IF pc[r] = "gi_putback" THEN [take_view[r] EXCEPT !.clean = FALSE]
           ELSE take_view[r]]
    /\ cache_raced' = \E r \in Readers : pc[r] = "gi_putback"
    /\ pc' = [pc EXCEPT ![d] = "im_wait"]
    /\ attempts' = [attempts EXCEPT ![d] = 1]
    /\ UNCHANGED <<sinkVars, connVars, appVars, lockVars, waited, state, cached_state, latest_image, push_log,
                   local, cmdVars, status_result, image_result>>

\* 2. with self._lock: the callback blocks until the lock is free.
ImageLegacyAcquire(d) ==
    /\ pc[d] = "im_wait"
    /\ data_lock = Free
    /\ data_lock' = d
    /\ pc' = [pc EXCEPT ![d] = "im_locked"]
    /\ UNCHANGED <<extVars, command_lock, waited, cacheVars, local, cmdVars, readVars>>

\* self._latest_image = (frame, timestamp); the lock is released.
ImageLegacySet(d) ==
    /\ pc[d] = "im_locked"
    /\ data_lock = d
    /\ latest_image' = local[d]
    /\ data_lock' = Free
    /\ pc' = [pc EXCEPT ![d] = "im_record"]
    /\ UNCHANGED <<extVars, command_lock, waited, state, cached_state, image_cache,
                   frames_put, push_log, local, cmdVars, readVars>>

\* 3. self._recorder.record_image(...): last, outside the lock.
ImageRecord(d) ==
    /\ pc[d] = "im_record"
    /\ SinkSubmit("images_recorded")
    /\ pc' = [pc EXCEPT ![d] = "idle"]
    /\ attempts' = [attempts EXCEPT ![d] = 0]
    /\ UNCHANGED <<connVars, appVars, lockVars, waited, cacheVars, local, cmdVars, readVars>>

\* ------------------------------------------------------------ specification
\* Commands, status reads and state updates: the command lock against the
\* telemetry lock.  No camera stream is subscribed in this workload, so the
\* image cache stays empty and get_latest_image() answers "no data yet".
Next ==
    \/ Tick
    \/ \E c \in Cmds : CmdInvoke(c)
    \/ \E c \in Cmds : CmdAcquire(c)
    \/ \E c \in Cmds : CmdDispatch(c)
    \/ \E c \in Cmds : CmdResolve(c)
    \/ \E c \in Cmds : CmdTimeout(c)
    \/ \E r \in StatusReaders : GetStatusCall(r)
    \/ \E r \in StatusReaders : GetStatusAcquire(r)
    \/ \E r \in StatusReaders : GetStatusBusy(r)
    \/ \E r \in StatusReaders : GetStatusRead(r)
    \/ \E r \in StatusReaders : TakeDrain(r)
    \/ \E r \in StatusReaders : TakePutBack(r)
    \/ \E d \in Dispatchers : StateCallback(d)
    \/ \E d \in Dispatchers : StateCallbackAcquire(d)
    \/ \E d \in Dispatchers : StatePoll(d)
    \/ \E d \in Dispatchers : StatePollAcquire(d)
    \/ \E d \in Dispatchers : StatePollSkip(d)
    \/ \E d \in Dispatchers : StateUpdate(d)
    \/ \E d \in Dispatchers : StateSwap(d)
    \/ \E d \in Dispatchers : StateRecord(d)

Spec == Init /\ [][Next]_vars

\* The camera stream: image callbacks against concurrent get_latest_image()
\* calls on the one-slot image cache.
NextCache ==
    \/ \E r \in Readers : TakeDrain(r)
    \/ \E r \in Readers : TakePutBack(r)
    \/ \E d \in Dispatchers : ImageCallback(d)
    \/ \E d \in Dispatchers : ImagePut(d)
    \/ \E d \in Dispatchers : ImageLegacyAcquire(d)
    \/ \E d \in Dispatchers : ImageLegacySet(d)
    \/ \E d \in Dispatchers : ImageRecord(d)

SpecCache == Init /\ [][NextCache]_vars

\* The camera stream read by get_latest_image_blocking(): a caller waits
\* for the next frame while another reads the cache without waiting.
NextFetch ==
    \/ Tick
    \/ \E r \in Readers : TakeBlockingCall(r)
    \/ \E r \in Readers : TakeBlockingWake(r)
    \/ \E r \in Readers : TakeBlockingTimeout(r)
    \/ \E r \in Readers : TakeDrain(r)
    \/ \E r \in Readers : TakePutBack(r)
    \/ \E d \in Dispatchers : ImageCallback(d)
    \/ \E d \in Dispatchers : ImagePut(d)
    \/ \E d \in Dispatchers : ImageLegacyAcquire(d)
    \/ \E d \in Dispatchers : ImageLegacySet(d)
    \/ \E d \in Dispatchers : ImageRecord(d)

SpecFetch == Init /\ [][NextFetch]_vars

\* Ingestion: the state and image streams are applied by the dispatcher
\* while a caller polls get_status() and get_latest_image().
NextIngest ==
    \/ Tick
    \/ \E r \in StatusReaders : GetStatusCall(r)
    \/ \E r \in StatusReaders : GetStatusAcquire(r)
    \/ \E r \in StatusReaders : GetStatusBusy(r)
    \/ \E r \in StatusReaders : GetStatusRead(r)
    \/ \E r \in StatusReaders : TakeDrain(r)
    \/ \E r \in StatusReaders : TakePutBack(r)
    \/ \E d \in Dispatchers : StateCallback(d)
    \/ \E d \in Dispatchers : StateCallbackAcquire(d)
    \/ \E d \in Dispatchers : StatePoll(d)
    \/ \E d \in Dispatchers : StatePollAcquire(d)
    \/ \E d \in Dispatchers : StatePollSkip(d)
    \/ \E d \in Dispatchers : StateUpdate(d)
    \/ \E d \in Dispatchers : StateSwap(d)
    \/ \E d \in Dispatchers : StateRecord(d)
    \/ \E d \in Dispatchers : ImageCallback(d)
    \/ \E d \in Dispatchers : ImagePut(d)
    \/ \E d \in Dispatchers : ImageLegacyAcquire(d)
    \/ \E d \in Dispatchers : ImageLegacySet(d)
    \/ \E d \in Dispatchers : ImageRecord(d)

SpecIngest == Init /\ [][NextIngest]_vars

\* Recording: the dispatcher hands its snapshots to the recorder while
\* recordings are started and stopped and the worker empties the queue.
NextSink ==
    \/ StartRecording
    \/ StopRecording
    \/ SinkWorker
    \/ \E d \in Dispatchers : StateCallback(d)
    \/ \E d \in Dispatchers : StateCallbackAcquire(d)
    \/ \E d \in Dispatchers : StateUpdate(d)
    \/ \E d \in Dispatchers : StateSwap(d)
    \/ \E d \in Dispatchers : StateRecord(d)
    \/ \E d \in Dispatchers : ImageCallback(d)
    \/ \E d \in Dispatchers : ImagePut(d)
    \/ \E d \in Dispatchers : ImageLegacyAcquire(d)
    \/ \E d \in Dispatchers : ImageLegacySet(d)
    \/ \E d \in Dispatchers : ImageRecord(d)

SpecSink == Init /\ [][NextSink]_vars

\* The connection lifecycle: callers connect and disconnect while the
\* transport comes up, fails or is lost, the camera stream delivers frames
\* and a recording is started.
NextConn ==
    \/ \E a \in Callers : ConnectCall(a)
    \/ \E a \in Callers : DisconnectCall(a)
    \/ \E a \in Callers : CallerReturn(a)
    \/ TransportUp
    \/ TransportFail
    \/ TransportLost
    \/ StartRecording
    \/ \E d \in Dispatchers : ImageCallback(d)
    \/ \E d \in Dispatchers : ImagePut(d)
    \/ \E d \in Dispatchers : ImageLegacyAcquire(d)
    \/ \E d \in Dispatchers : ImageLegacySet(d)
    \/ \E d \in Dispatchers : ImageRecord(d)

SpecConn == InitMediator /\ [][NextConn]_vars

\* Teardown: a connected client loses its transport or is disconnected, and
\* may be connected again, while the camera stream delivers frames and a
\* caller reads the status and the latest image.
NextTeardown ==
    \/ Tick
    \/ TransportLost
    \/ TransportUp
    \/ TransportFail
    \/ \E a \in Callers : ConnectCall(a)
    \/ \E a \in Callers : DisconnectCall(a)
    \/ \E a \in Callers : CallerReturn(a)
    \/ \E r \in StatusReaders : GetStatusCall(r)
    \/ \E r \in StatusReaders : GetStatusAcquire(r)
    \/ \E r \in StatusReaders : GetStatusBusy(r)
    \/ \E r \in StatusReaders : GetStatusRead(r)
    \/ \E r \in StatusReaders : TakeDrain(r)
    \/ \E r \in StatusReaders : TakePutBack(r)
    \/ \E d \in Dispatchers : ImageCallback(d)
    \/ \E d \in Dispatchers : ImagePut(d)
    \/ \E d \in Dispatchers : ImageLegacyAcquire(d)
    \/ \E d \in Dispatchers : ImageLegacySet(d)
    \/ \E d \in Dispatchers : ImageRecord(d)

SpecTeardown == Init /\ [][NextTeardown]_vars

\* The command executor while the image stream is ingested: commands are
\* invoked again and again, the transport answers or not, time passes.
NextCommands ==
    \/ Tick
    \/ \E d \in Dispatchers : ImageCallback(d)
    \/ \E d \in Dispatchers : ImagePut(d)
    \/ \E d \in Dispatchers : ImageLegacyAcquire(d)
    \/ \E d \in Dispatchers : ImageLegacySet(d)
    \/ \E d \in Dispatchers : ImageRecord(d)
    \/ \E c \in Cmds : CmdInvoke(c)
    \/ \E c \in Cmds : CmdAcquire(c)
    \/ \E c \in Cmds : CmdDispatch(c)
    \/ \E c \in Cmds : CmdResolve(c)
    \/ \E c \in Cmds : CmdTimeout(c)

\* What the threads and the clock do on their own: time passes, a running
\* thread takes its next step (dispatch, or return when its join has timed
\* out), and a thread blocked on the command lock gets it eventually if the
\* lock is released again and again.  The transport need not ever answer,
\* nobody need ever invoke a command, and the image stream may stop.
CommandFairness ==
    /\ WF_vars(Tick)
    /\ \A c \in Cmds :
         /\ SF_vars(CmdAcquire(c))
         /\ WF_vars(CmdDispatch(c))
         /\ WF_vars(CmdTimeout(c))

SpecCommands == Init /\ [][NextCommands]_vars /\ CommandFairness

\* Commands while the mediator is disconnected and connected again.
NextShutdown ==
    \/ Tick
    \/ \E c \in Cmds : CmdInvoke(c)
    \/ \E c \in Cmds : CmdAcquire(c)
    \/ \E c \in Cmds : CmdDispatch(c)
    \/ \E c \in Cmds : CmdResolve(c)
    \/ \E c \in Cmds : CmdTimeout(c)
    \/ \E a \in Callers : ConnectCall(a)
    \/ \E a \in Callers : DisconnectCall(a)
    \/ \E a \in Callers : CallerReturn(a)
    \/ TransportUp
    \/ TransportFail

SpecShutdown == Init /\ [][NextShutdown]_vars /\ CommandFairness

\* ---------------------------------------------------------------- frontend
\* Every variable of the vehicle client.
coreVars == <<lockVars, pc, waited, cacheVars, local, cmdVars, readVars, attempts,
              sinkVars, connVars>>

\* The build and the browser the frontend starts in: either build, nothing
\* stored yet.
InitFrontend ==
    /\ InitCore
    /\ conn_state = "Connected"
    /\ transport_opens = 1
    /\ subscriptions = [t \in Topics |-> 1]
    /\ FrontendFresh
    /\ use_mock \in BOOLEAN
    /\ AgentFresh
    /\ approval_mode = "normal"

\* HttpClient.setToken(token): the client's token and localStorage follow
\* (a null token removes the item).
SetToken(tok) ==
    /\ http_token' = tok
    /\ ls_token' = tok

\* The lists that have a fetch timestamp.
Timestamped ==
    {res \in {"drones", "tasks"} :
        (IF res = "drones" THEN lastDronesFetch ELSE lastTasksFetch) # NoFetch}

\* useStore logout(): authService.logout() (mockService.logout() calls the
\* same), then the store is reset: the user, the lists and the two fetch
\* timestamps; the loading flags and systemStats are not among the fields
\* it sets.
StoreLogout ==
    /\ SetToken(NoToken)
    /\ user' = NoUser
    /\ isAuthenticated' = FALSE
    /\ logged_out' = TRUE
    /\ drones' = <<>>
    /\ tasks' = <<>>
    /\ lastDronesFetch' = NoFetch
    /\ lastTasksFetch' = NoFetch
    /\ invalidated' = invalidated \cup Timestamped
    /\ messages' = <<Greeting>>

\* What logout() leaves of the store's volatile data.
logoutKeeps == <<now, isLoadingDrones, isLoadingTasks, systemStats, fetchers,
                 loadingSince, dashboard, abortControllers, pending, isTyping,
                 chats>>

\* The user logs out from the UI.
Logout ==
    /\ StoreLogout
    /\ UNCHANGED <<use_mock, api_token, login_pending, requests, coreVars,
                   agentVars, logoutKeeps>>

\* Login.tsx handleSubmit: the form calls api.login() and awaits it.
LoginSubmit ==
    /\ ~login_pending
    /\ login_pending' = TRUE
    /\ UNCHANGED <<use_mock, ls_token, http_token, api_token, user, isAuthenticated,
                   requests, logged_out, coreVars,
                   agentVars, uiVars>>

\* api.login() answers: the mock build returns the mock token without
\* keeping it, the live build keeps the server's token (ApiService.setToken);
\* the form then calls the store's login(user, token).
LoginSucceed ==
    /\ login_pending
    /\ \E tok \in (IF use_mock THEN {MockToken} ELSE ServerTokens) :
         /\ api_token' = IF use_mock THEN api_token ELSE tok
         /\ ls_token' = tok
    /\ user' = MockUser
    /\ isAuthenticated' = TRUE
    /\ login_pending' = FALSE
    /\ logged_out' = FALSE
    /\ UNCHANGED <<use_mock, http_token, requests, coreVars,
                   agentVars, uiVars>>

\* api.login() throws 'Login failed' (live build only); the form shows the
\* error.
LoginFail ==
    /\ login_pending
    /\ ~use_mock
    /\ login_pending' = FALSE
    /\ UNCHANGED <<use_mock, ls_token, http_token, api_token, user, isAuthenticated,
                   requests, logged_out, coreVars,
                   agentVars, uiVars>>

\* authService.login(credentials) succeeds (the login of the live build):
\* the token is set in the HTTP client.
AuthLogin ==
    /\ ~use_mock
    /\ \E tok \in ServerTokens : SetToken(tok)
    /\ logged_out' = FALSE
    /\ UNCHANGED <<use_mock, api_token, user, isAuthenticated, login_pending,
                   requests, coreVars,
                   agentVars, uiVars>>

\* The volatile data of the store and the pages start afresh.
VolatileRestart ==
    /\ drones' = <<>>
    /\ tasks' = <<>>
    /\ lastDronesFetch' = NoFetch
    /\ lastTasksFetch' = NoFetch
    /\ isLoadingDrones' = FALSE
    /\ isLoadingTasks' = FALSE
    /\ systemStats' = NoSystemStats
    /\ fetchers' = [f \in Fetchers |-> NoFetcher]
    /\ loadingSince' = NoFetch
    /\ invalidated' = {}
    /\ dashboard' = NoDashboard
    /\ abortControllers' = [k \in RequestKeys |-> NoController]
    /\ pending' = [q \in Requests |-> NoPending]
    /\ isTyping' = FALSE
    /\ messages' = <<Greeting>>
    /\ chats' = [c \in Chats |-> "none"]

\* The page is (re)loaded: both API clients are constructed from
\* localStorage, requests in flight are gone, the store is rehydrated from
\* sessionStorage (user and isAuthenticated; the volatile data starts
\* afresh).
PageLoad ==
    /\ http_token' = ls_token
    /\ api_token' = ls_token
    /\ login_pending' = FALSE
    /\ requests' = [q \in Requests |-> NoRequest]
    /\ VolatileRestart
    /\ UNCHANGED <<use_mock, ls_token, user, isAuthenticated, logged_out, coreVars,
                   agentVars, now>>

\* A request leaves with the headers built from the client's token.
SendWith(q, client, kind, tok) ==
    /\ requests[q].stage # "sent"
    /\ requests' = [requests EXCEPT ![q] =
           [client |-> client, kind |-> kind, header |-> tok,
            stage |-> "sent", status |-> 0, result |-> "none"]]
    /\ UNCHANGED <<use_mock, ls_token, http_token, api_token, user, isAuthenticated,
                   login_pending, logged_out, coreVars,
                   agentVars, uiVars>>

\* HttpClient.request (get/post/put/patch/delete, a retry included) or
\* HttpClient.postFormData sends.
HttpSend(q, kind) == SendWith(q, "http", kind, http_token)

\* ApiService.request sends.
ApiSend(q) == SendWith(q, "api", "request", api_token)

\* The response to request q is in, and the caller's promise settles with
\* res.
Answered(q, st, res) ==
    requests' = [requests EXCEPT ![q].stage = "done", ![q].status = st,
                                 ![q].result = res]

\* What the caller of an HttpClient method gets: the data of an ok
\* response, else the error thrown.
HttpOutcome(st) == IF st = 200 THEN "data" ELSE "ApiError"

\* What the caller of ApiService.request gets: the data of an ok response;
\* else the error thrown ('Unauthorized' on 401) is caught by the method's
\* own catch, which rethrows it in the live build and in the mock build
\* answers from mockHandler (mock data, or 'Mock endpoint not found').
ApiOutcomes(st) ==
    IF st = 200 THEN {"data"}
    ELSE IF use_mock THEN {"mock data", "Mock endpoint not found"}
    ELSE IF st = 401 THEN {"Unauthorized"}
    ELSE {"API Error"}

\* HttpClient.request receives the response: on 401 the token is cleared
\* and 'auth:unauthorized' is dispatched, whose listener logs the store out;
\* every other status touches no state.
HttpRequestReceive(q, st) ==
    /\ requests[q].stage = "sent"
    /\ requests[q].client = "http"
    /\ requests[q].kind = "request"
    /\ Answered(q, st, HttpOutcome(st))
    /\ IF st = 401
         THEN StoreLogout
         ELSE UNCHANGED <<ls_token, http_token, user, isAuthenticated, logged_out,
                          drones, tasks, lastDronesFetch, lastTasksFetch,
                          invalidated, messages>>
    /\ UNCHANGED <<use_mock, api_token, login_pending, coreVars,
                   agentVars, logoutKeeps>>

\* HttpClient.postFormData receives the response: any status that is not ok
\* is thrown as an error.
HttpFormReceive(q, st) ==
    /\ requests[q].stage = "sent"
    /\ requests[q].client = "http"
    /\ requests[q].kind = "postFormData"
    /\ Answered(q, st, HttpOutcome(st))
    /\ UNCHANGED <<use_mock, ls_token, http_token, api_token, user, isAuthenticated,
                   login_pending, logged_out, coreVars,
                   agentVars, uiVars>>

\* ApiService.request receives the response: on 401 ApiService.logout()
\* clears its own token and localStorage.
ApiReceive(q, st) ==
    /\ requests[q].stage = "sent"
    /\ requests[q].client = "api"
    /\ \E res \in ApiOutcomes(st) : Answered(q, st, res)
    /\ IF st = 401
         THEN api_token' = NoToken /\ ls_token' = NoToken
         ELSE UNCHANGED <<api_token, ls_token>>
    /\ UNCHANGED <<use_mock, http_token, user, isAuthenticated, login_pending,
                   logged_out, coreVars,
                   agentVars, uiVars>>

\* The frontend: logins, logouts, page loads and requests of both clients.
NextFrontend ==
    \/ Logout
    \/ LoginSubmit
    \/ LoginSucceed
    \/ LoginFail
    \/ AuthLogin
    \/ PageLoad
    \/ \E q \in Requests, kind \in {"request", "postFormData"} : HttpSend(q, kind)
    \/ \E q \in Requests : ApiSend(q)
    \/ \E q \in Requests, st \in HttpStatuses : HttpRequestReceive(q, st)
    \/ \E q \in Requests, st \in HttpStatuses : HttpFormReceive(q, st)
    \/ \E q \in Requests, st \in HttpStatuses : ApiReceive(q, st)

SpecFrontend == InitFrontend /\ [][NextFrontend]_vars

\* ------------------------------------------------------------------- agent
\* A task of the agent in a connected system, under any approval mode.
InitAgent ==
    /\ InitCore
    /\ conn_state = "Connected"
    /\ transport_opens = 1
    /\ subscriptions = [t \in Topics |-> 1]
    /\ FrontendFresh
    /\ use_mock = TRUE
    /\ AgentFresh
    /\ approval_mode \in ApprovalModes

\* DANGEROUS_OPERATIONS: the risk level of an operation.
Risk(op) ==
    CASE op = "device_tool.takeoff" -> "HIGH"
      [] op = "device_tool.goto"    -> "MEDIUM"
      [] op = "device_tool.land"    -> "LOW"

\* Scheduler: shouldConfirmExecute().  YOLO auto-approves all operations,
\* STRICT confirms all of them, NORMAL confirms the dangerous ones (HIGH and
\* MEDIUM; LOW is only confirmed in STRICT mode).
ShouldConfirmExecute(mode, op) ==
    CASE mode = "yolo"   -> FALSE
      [] mode = "strict" -> TRUE
      [] mode = "normal" -> Risk(op) \in {"HIGH", "MEDIUM"}

\* Task.set_state_and_publish(new_state): the state is assigned.
SetStateAndPublish(new_state) == task_state' = new_state

\* start(): the created task begins to work.
TaskStart ==
    /\ task_state = "SUBMITTED"
    /\ SetStateAndPublish("WORKING")
    /\ UNCHANGED <<approval_mode, calls, coreVars, feVars, uiVars>>

\* Task.schedule_tool_calls(requests): the state is set to WORKING and the
\* request is handed to the scheduler (status Scheduled).
ScheduleToolCalls(k, op) ==
    /\ calls[k].status \in {"none", "success", "error", "cancelled"}
    /\ SetStateAndPublish("WORKING")
    /\ calls' = [calls EXCEPT ![k] = [op |-> op, status |-> "scheduled", outcome |-> "none"]]
    /\ UNCHANGED <<approval_mode, coreVars, feVars, uiVars>>

\* CoreToolScheduler.schedule, step 2: a call that needs confirmation is
\* published as awaiting_approval and the task waits for input; any other
\* call goes on to execute.
SchedulerCheck(k) ==
    /\ calls[k].status = "scheduled"
    /\ IF ShouldConfirmExecute(approval_mode, calls[k].op)
         THEN /\ calls' = [calls EXCEPT ![k].status = "awaiting_approval"]
              /\ IF task_state = "WORKING"
                   THEN SetStateAndPublish("INPUT_REQUIRED")
                   ELSE UNCHANGED task_state
         ELSE /\ calls' = [calls EXCEPT ![k].status = "executing"]
              /\ UNCHANGED task_state
    /\ UNCHANGED <<approval_mode, coreVars, feVars, uiVars>>

\* Task.handle_tool_confirmation(call_id, outcome): the user's choice;
\* cancel cancels the call, every other choice lets it execute.
HandleToolConfirmation(k, outcome) ==
    /\ calls[k].status = "awaiting_approval"
    /\ calls' = [calls EXCEPT ![k].outcome = outcome,
                              ![k].status = IF outcome = "cancel" THEN "cancelled"
                                                                  ELSE "executing"]
    /\ IF task_state = "INPUT_REQUIRED"
         THEN SetStateAndPublish("WORKING")
         ELSE UNCHANGED task_state
    /\ UNCHANGED <<approval_mode, coreVars, feVars, uiVars>>

\* The tool returns: Executing -> Success / Error.
ToolFinish(k, result) ==
    /\ calls[k].status = "executing"
    /\ calls' = [calls EXCEPT ![k].status = result]
    /\ UNCHANGED <<approval_mode, task_state, coreVars, feVars, uiVars>>

\* The task ends: completed, failed or cancelled.
TaskFinish(final) ==
    /\ task_state \in {"WORKING", "INPUT_REQUIRED"}
    /\ SetStateAndPublish(final)
    /\ UNCHANGED <<approval_mode, calls, coreVars, feVars, uiVars>>

\* The agent: one task and the tool calls of its scheduler.
NextAgent ==
    \/ TaskStart
    \/ \E k \in CallIds, op \in Operations : ScheduleToolCalls(k, op)
    \/ \E k \in CallIds : SchedulerCheck(k)
    \/ \E k \in CallIds, outcome \in ConfirmationOutcomes : HandleToolConfirmation(k, outcome)
    \/ \E k \in CallIds, result \in {"success", "error"} : ToolFinish(k, result)
    \/ \E final \in TerminalStates : TaskFinish(final)

SpecAgent == InitAgent /\ [][NextAgent]_vars

\* ------------------------------------------------------------------- store
\* isCacheValid(lastFetch): a timestamp that was set, less than CACHE_TTL ago.
isCacheValid(lastFetch) ==
    /\ lastFetch # NoFetch
    /\ now - lastFetch < CACHE_TTL

\* How many entries of a list have a status in S (Array.filter(...).length).
Count(list, S) == Cardinality({i \in DOMAIN list : list[i] \in S})

\* The statistics updateSystemStats() computes from the two lists.
Stats(ds, ts) ==
    [totalDrones |-> Len(ds),
     activeDrones |-> Count(ds, {"FLYING", "ARMED"}),
     onlineDrones |-> Len(ds) - Count(ds, {"OFFLINE", "ERROR"}),
     errorDrones |-> Count(ds, {"ERROR"}),
     activeTasks |-> Count(ts, {"IN_PROGRESS", "PENDING"})]

\* updateSystemStats(), called at the end of an action: the statistics of
\* the lists ds and ts as the action leaves them.
updateSystemStats(ds, ts) == systemStats' = Stats(ds, ts)

\* Caller f's await ends with the service's answer or failure.
Settled(f, outcome) ==
    fetchers' = [fetchers EXCEPT ![f].stage = "idle", ![f].outcome = outcome,
                                 ![f].force = FALSE]

\* Caller f's call of a fetch returns or starts to wait.
Fetched(f, res, force, stage, outcome) ==
    /\ fetchers' = [fetchers EXCEPT ![f] =
           [res |-> res, stage |-> stage, outcome |-> outcome, force |-> force]]
    /\ invalidated' = invalidated \ {res}

\* A list without its i-th entry (Array.filter on the id).
Without(list, i) == SubSeq(list, 1, i - 1) \o SubSeq(list, i + 1, Len(list))

\* The store's clock advances.  The mock services answer after 0.3 s, long
\* before a tick has passed, and the Dashboard's interval of 2 s fires
\* within every tick.
StoreTick ==
    /\ now < MaxNow
    /\ use_mock => \A f \in Fetchers : fetchers[f].stage = "idle"
    /\ dashboard.mounted => dashboard.polled
    /\ now' = now + 1
    /\ dashboard' = [dashboard EXCEPT !.polled = FALSE]
    /\ UNCHANGED <<coreVars, feVars, agentVars, otherPageVars, invalidated,
                   loadingSince, drones, tasks, lastDronesFetch, lastTasksFetch,
                   isLoadingDrones, isLoadingTasks, systemStats, fetchers>>

\* What fetchDrones leaves alone, whoever calls it.
fetchDronesKeeps == <<coreVars, feVars, agentVars, otherPageVars, now, drones, tasks,
                      lastDronesFetch, lastTasksFetch, isLoadingTasks, systemStats>>

\* fetchDrones(force), up to its await: return on a valid cache unless
\* forced, return while a fetch is loading, else set isLoadingDrones and call
\* the drone service.  The pages that call it are shown to a logged-in user.
fetchDronesCall(f, force) ==
    /\ isAuthenticated
    /\ fetchers[f].stage = "idle"
    /\ IF ~force /\ isCacheValid(lastDronesFetch)
         THEN /\ Fetched(f, "drones", force, "idle", "cached")
              /\ UNCHANGED <<isLoadingDrones, loadingSince>>
         ELSE IF isLoadingDrones
         THEN /\ Fetched(f, "drones", force, "idle", "busy")
              /\ UNCHANGED <<isLoadingDrones, loadingSince>>
         ELSE /\ Fetched(f, "drones", force, "awaiting", "called")
              /\ isLoadingDrones' = TRUE
              /\ loadingSince' = now
    /\ UNCHANGED fetchDronesKeeps

\* fetchDrones without the check of isLoadingDrones.
fetchDrones_no_guard(f, force) ==
    /\ isAuthenticated
    /\ fetchers[f].stage = "idle"
    /\ IF ~force /\ isCacheValid(lastDronesFetch)
         THEN /\ Fetched(f, "drones", force, "idle", "cached")
              /\ UNCHANGED <<isLoadingDrones, loadingSince>>
         ELSE /\ Fetched(f, "drones", force, "awaiting", "called")
              /\ isLoadingDrones' = TRUE
              /\ loadingSince' = now
    /\ UNCHANGED <<fetchDronesKeeps, dashboard>>

\* A page other than the Dashboard (or a button) calls fetchDrones(force).
fetchDrones(f, force) ==
    /\ fetchDronesCall(f, force)
    /\ UNCHANGED dashboard

\* The drone service answers: the list (or the empty list when the answer is
\* no array) and the time are stored, the statistics updated, and the finally
\* block clears isLoadingDrones.  Only a live server answers something else
\* than a list.
fetchDronesResolve(f, data) ==
    /\ fetchers[f].stage = "awaiting"
    /\ fetchers[f].res = "drones"
    /\ data = NotArray => ~use_mock
    /\ drones' = IF data = NotArray THEN <<>> ELSE data
    /\ lastDronesFetch' = now
    /\ updateSystemStats(drones', tasks)
    /\ isLoadingDrones' = FALSE
    /\ Settled(f, "resolved")
    /\ invalidated' = invalidated \ {fetchers[f].res}
    /\ UNCHANGED <<coreVars, feVars, agentVars, pageVars, loadingSince, now,
                   tasks, lastTasksFetch, isLoadingTasks>>

\* The drone service fails (live build; the mock service does not): a
\* notification, and the finally block clears isLoadingDrones.
fetchDronesReject(f) ==
    /\ fetchers[f].stage = "awaiting"
    /\ fetchers[f].res = "drones"
    /\ ~use_mock
    /\ isLoadingDrones' = FALSE
    /\ Settled(f, "rejected")
    /\ UNCHANGED <<coreVars, feVars, agentVars, pageVars, invalidated,
                   loadingSince, now, drones, tasks, lastDronesFetch,
                   lastTasksFetch, isLoadingTasks, systemStats>>

\* fetchTasks(force), up to its await: as fetchDrones, but the flag is set
\* to false where fetchDrones sets it to true.
fetchTasks(f, force) ==
    /\ isAuthenticated
    /\ fetchers[f].stage = "idle"
    /\ IF ~force /\ isCacheValid(lastTasksFetch)
         THEN /\ Fetched(f, "tasks", force, "idle", "cached")
              /\ UNCHANGED isLoadingTasks
         ELSE IF isLoadingTasks
         THEN /\ Fetched(f, "tasks", force, "idle", "busy")
              /\ UNCHANGED isLoadingTasks
         ELSE /\ Fetched(f, "tasks", force, "awaiting", "called")
              /\ isLoadingTasks' = FALSE
    /\ UNCHANGED <<coreVars, feVars, agentVars, pageVars, loadingSince, now,
                   drones, tasks, lastDronesFetch, lastTasksFetch,
                   isLoadingDrones, systemStats>>

\* The task service answers.
fetchTasksResolve(f, data) ==
    /\ fetchers[f].stage = "awaiting"
    /\ fetchers[f].res = "tasks"
    /\ data = NotArray => ~use_mock
    /\ tasks' = IF data = NotArray THEN <<>> ELSE data
    /\ lastTasksFetch' = now
    /\ updateSystemStats(drones, tasks')
    /\ isLoadingTasks' = FALSE
    /\ Settled(f, "resolved")
    /\ invalidated' = invalidated \ {fetchers[f].res}
    /\ UNCHANGED <<coreVars, feVars, agentVars, pageVars, loadingSince, now,
                   drones, lastDronesFetch, isLoadingDrones>>

\* The task service fails (live build).
fetchTasksReject(f) ==
    /\ fetchers[f].stage = "awaiting"
    /\ fetchers[f].res = "tasks"
    /\ ~use_mock
    /\ isLoadingTasks' = FALSE
    /\ Settled(f, "rejected")
    /\ UNCHANGED <<coreVars, feVars, agentVars, pageVars, invalidated,
                   loadingSince, now, drones, tasks, lastDronesFetch,
                   lastTasksFetch, isLoadingDrones, systemStats>>

\* updateDrone(id, updates): the drone with that id (if any; i = 0 is an id
\* no drone has) takes the update, then the statistics are updated.
updateDrone(i, st) ==
    /\ isAuthenticated
    /\ drones' = IF i \in DOMAIN drones THEN [drones EXCEPT ![i] = st] ELSE drones
    /\ updateSystemStats(drones', tasks)
    /\ UNCHANGED <<coreVars, feVars, agentVars, pageVars, invalidated,
                   loadingSince, now, tasks, lastDronesFetch, lastTasksFetch,
                   isLoadingDrones, isLoadingTasks, fetchers>>

\* updateTaskLocally(updatedTask).
updateTaskLocally(i, st) ==
    /\ isAuthenticated
    /\ tasks' = IF i \in DOMAIN tasks THEN [tasks EXCEPT ![i] = st] ELSE tasks
    /\ updateSystemStats(drones, tasks')
    /\ UNCHANGED <<coreVars, feVars, agentVars, pageVars, invalidated,
                   loadingSince, now, drones, lastDronesFetch, lastTasksFetch,
                   isLoadingDrones, isLoadingTasks, fetchers>>

\* addTaskLocally(newTask).
addTaskLocally(st) ==
    /\ isAuthenticated
    /\ Len(tasks) < MaxTasks
    /\ tasks' = Append(tasks, st)
    /\ updateSystemStats(drones, tasks')
    /\ UNCHANGED <<coreVars, feVars, agentVars, pageVars, invalidated,
                   loadingSince, now, drones, lastDronesFetch, lastTasksFetch,
                   isLoadingDrones, isLoadingTasks, fetchers>>

\* removeTaskLocally(id).
removeTaskLocally(i) ==
    /\ isAuthenticated
    /\ i \in DOMAIN tasks
    /\ tasks' = Without(tasks, i)
    /\ updateSystemStats(drones, tasks')
    /\ UNCHANGED <<coreVars, feVars, agentVars, pageVars, invalidated,
                   loadingSince, now, drones, lastDronesFetch, lastTasksFetch,
                   isLoadingDrones, isLoadingTasks, fetchers>>

\* invalidateCache() forgetting the drone timestamp only.
invalidateCache_drones_only ==
    /\ lastDronesFetch' = NoFetch
    /\ invalidated' = invalidated \cup Timestamped
    /\ UNCHANGED <<coreVars, feVars, agentVars, pageVars, loadingSince, now,
                   drones, tasks, lastTasksFetch, isLoadingDrones,
                   isLoadingTasks, systemStats, fetchers>>

\* invalidateCache(): both timestamps are forgotten.
invalidateCache ==
    /\ lastDronesFetch' = NoFetch
    /\ lastTasksFetch' = NoFetch
    /\ invalidated' = invalidated \cup Timestamped
    /\ UNCHANGED <<coreVars, feVars, agentVars, pageVars, loadingSince, now,
                   drones, tasks, isLoadingDrones, isLoadingTasks, systemStats,
                   fetchers>>

\* Both lists fetched side by side: time passes, users log in and out,
\* pages fetch, the cache is invalidated.
NextStore ==
    \/ StoreTick
    \/ LoginSubmit
    \/ LoginSucceed
    \/ Logout
    \/ \E f \in Fetchers, force \in BOOLEAN : fetchDrones(f, force)
    \/ \E f \in Fetchers, data \in ServerDroneLists : fetchDronesResolve(f, data)
    \/ \E f \in Fetchers, force \in BOOLEAN : fetchTasks(f, force)
    \/ \E f \in Fetchers, data \in ServerTaskLists : fetchTasksResolve(f, data)
    \/ invalidateCache

SpecStore == InitFrontend /\ [][NextStore]_vars

\* The drone list alone: the pages that show drones.
NextDrones ==
    \/ StoreTick
    \/ LoginSubmit
    \/ LoginSucceed
    \/ Logout
    \/ \E f \in Fetchers, force \in BOOLEAN : fetchDrones(f, force)
    \/ \E f \in Fetchers, data \in ServerDroneLists \cup {NotArray} : fetchDronesResolve(f, data)
    \/ \E f \in Fetchers : fetchDronesReject(f)
    \/ \E i \in 0..MaxTasks, st \in DroneStatuses : updateDrone(i, st)
    \/ invalidateCache

SpecDrones == InitFrontend /\ [][NextDrones]_vars

\* The task list alone: the task management page.
NextTasks ==
    \/ StoreTick
    \/ LoginSubmit
    \/ LoginSucceed
    \/ Logout
    \/ \E f \in Fetchers, force \in BOOLEAN : fetchTasks(f, force)
    \/ \E f \in Fetchers, data \in ServerTaskLists \cup {NotArray} : fetchTasksResolve(f, data)
    \/ \E f \in Fetchers : fetchTasksReject(f)
    \/ \E i \in 0..MaxTasks, st \in TaskStatuses : updateTaskLocally(i, st)
    \/ \E st \in TaskStatuses : addTaskLocally(st)
    \/ \E i \in 1..MaxTasks : removeTaskLocally(i)
    \/ invalidateCache

SpecTasks == InitFrontend /\ [][NextTasks]_vars

\* --------------------------------------------------------------- Dashboard
\* Dashboard.tsx useEffect: on mount fetchDrones() is called and an interval
\* of 2 s is set that calls it again, each time without the force argument.
\* The first firing may fall into the next tick.
DashboardMount(f) ==
    /\ ~dashboard.mounted
    /\ fetchDronesCall(f, FALSE)
    /\ dashboard' = [mounted |-> TRUE, since |-> now, polled |-> TRUE]

\* The interval fires: fetchDrones().
DashboardInterval(f) ==
    /\ dashboard.mounted
    /\ fetchDronesCall(f, FALSE)
    /\ dashboard' = [dashboard EXCEPT !.polled = TRUE]

\* The effect's cleanup: the page is left and the interval cleared.
DashboardUnmount ==
    /\ dashboard.mounted
    /\ dashboard' = NoDashboard
    /\ UNCHANGED <<coreVars, feVars, agentVars, storeVars, otherPageVars>>

\* A user logs in and watches the Dashboard.
NextDashboard ==
    \/ StoreTick
    \/ LoginSubmit
    \/ LoginSucceed
    \/ \E f \in Fetchers : DashboardMount(f)
    \/ \E f \in Fetchers : DashboardInterval(f)
    \/ DashboardUnmount
    \/ \E f \in Fetchers, data \in ServerDroneLists \cup {NotArray} : fetchDronesResolve(f, data)
    \/ \E f \in Fetchers : fetchDronesReject(f)

SpecDashboard == InitFrontend /\ [][NextDashboard]_vars

\* -------------------------------------------------- HttpClient cancellation
\* What the requests of the HTTP client leave alone.
httpKeeps == <<coreVars, feVars, agentVars, storeVars, dashboard, isTyping, messages,
               chats>>

\* HttpClient.request(endpoint, options), up to its fetch: a new
\* AbortController is stored under the key made of method and endpoint,
\* replacing whatever was stored there, and the request leaves.
HttpRequestStart(q, key) ==
    /\ pending[q].stage # "pending"
    /\ abortControllers' = [abortControllers EXCEPT ![key] = q]
    /\ pending' = [pending EXCEPT ![q] =
           [key |-> key, stage |-> "pending", aborted |-> FALSE]]
    /\ UNCHANGED httpKeeps

\* HttpClient.postFormData(endpoint, formData), up to its fetch: no
\* AbortController is made.
PostFormDataStart(q) ==
    /\ pending[q].stage # "pending"
    /\ pending' = [pending EXCEPT ![q] =
           [key |-> "postFormData", stage |-> "pending", aborted |-> FALSE]]
    /\ UNCHANGED <<httpKeeps, abortControllers>>

\* The requests whose controllers are stored under the keys K.
Controlled(K) == {abortControllers[k] : k \in K} \ {NoController}

\* controller.abort() on the controllers of the requests Q.
Abort(Q) ==
    pending' = [q \in Requests |->
        IF q \in Q /\ pending[q].stage = "pending"
            THEN [pending[q] EXCEPT !.aborted = TRUE]
            ELSE pending[q]]

\* cancelRequest(key): the controller stored under the key, if any, is
\* aborted and removed.
cancelRequest(key) ==
    /\ Abort(Controlled({key}))
    /\ abortControllers' = [abortControllers EXCEPT ![key] = NoController]
    /\ UNCHANGED httpKeeps

\* cancelAllRequests(): every stored controller is aborted, the map cleared.
cancelAllRequests ==
    /\ Abort(Controlled(RequestKeys))
    /\ abortControllers' = [k \in RequestKeys |-> NoController]
    /\ UNCHANGED httpKeeps

\* The fetch of an aborted request rejects with AbortError: the request
\* rejects with status 0 'Request cancelled', and its finally block deletes
\* whatever is stored under its key.
HttpRequestCancelled(q) ==
    /\ pending[q].stage = "pending"
    /\ pending[q].aborted
    /\ pending' = [pending EXCEPT ![q].stage = "cancelled"]
    /\ abortControllers' = [abortControllers EXCEPT ![pending[q].key] = NoController]
    /\ UNCHANGED httpKeeps

\* The request is answered or fails otherwise; the finally block deletes
\* whatever is stored under its key.
HttpRequestSettled(q) ==
    /\ pending[q].stage = "pending"
    /\ pending[q].key \in RequestKeys
    /\ ~pending[q].aborted
    /\ pending' = [pending EXCEPT ![q].stage = "settled"]
    /\ abortControllers' = [abortControllers EXCEPT ![pending[q].key] = NoController]
    /\ UNCHANGED httpKeeps

\* The upload is answered or fails.
PostFormDataSettled(q) ==
    /\ pending[q].stage = "pending"
    /\ pending[q].key = "postFormData"
    /\ pending' = [pending EXCEPT ![q].stage = "settled"]
    /\ UNCHANGED <<httpKeeps, abortControllers>>

\* Requests and uploads of the services, cancelled by key or all at once.
NextHttp ==
    \/ \E q \in Requests, key \in RequestKeys : HttpRequestStart(q, key)
    \/ \E q \in Requests : PostFormDataStart(q)
    \/ \E key \in RequestKeys : cancelRequest(key)
    \/ cancelAllRequests
    \/ \E q \in Requests : HttpRequestCancelled(q)
    \/ \E q \in Requests : HttpRequestSettled(q)
    \/ \E q \in Requests : PostFormDataSettled(q)

SpecHttp == InitFrontend /\ [][NextHttp]_vars

\* ------------------------------------------------------------ AgentConsole
\* What the agent console leaves alone.
consoleKeeps == <<coreVars, feVars, agentVars, storeVars, dashboard, abortControllers,
                  pending>>

\* addMessage(msg): the message is appended and the last 100 are kept.
addMessage(list, msg) ==
    LET all == Append(list, msg)
    IN  IF Len(all) > MAX_MESSAGES
            THEN SubSeq(all, Len(all) - MAX_MESSAGES + 1, Len(all))
            ELSE all

\* handleSend(), up to its await, with message c typed into the input: the
\* user's message is added, isTyping set, and api.sendAgentMessage() called.
\* The console is a page shown to a logged-in user.
handleSend(c) ==
    /\ isAuthenticated
    /\ chats[c] = "none"
    /\ messages' = addMessage(messages, [role |-> "user", chat |-> c])
    /\ isTyping' = TRUE
    /\ chats' = [chats EXCEPT ![c] = "pending"]
    /\ UNCHANGED consoleKeeps

\* The send button, which is disabled while isTyping.
SendClick(c) ==
    /\ ~isTyping
    /\ handleSend(c)

\* The Enter key in the input: onKeyDown calls handleSend() whatever
\* isTyping is.
SendEnter(c) == handleSend(c)

\* api.sendAgentMessage() answers: the assistant's message is added, then a
\* system message if actions were executed, and the finally block clears
\* isTyping.
AgentReply(c, executed) ==
    /\ chats[c] = "pending"
    /\ LET replied == addMessage(messages, [role |-> "assistant", chat |-> c])
       IN  messages' = IF executed
                         THEN addMessage(replied, [role |-> "system", chat |-> c])
                         ELSE replied
    /\ isTyping' = FALSE
    /\ chats' = [chats EXCEPT ![c] = "answered"]
    /\ UNCHANGED consoleKeeps

\* api.sendAgentMessage() fails (live build; the mock answers always): a
\* system message reports it, and the finally block clears isTyping.
AgentFail(c) ==
    /\ chats[c] = "pending"
    /\ ~use_mock
    /\ messages' = addMessage(messages, [role |-> "system", chat |-> c])
    /\ isTyping' = FALSE
    /\ chats' = [chats EXCEPT ![c] = "failed"]
    /\ UNCHANGED consoleKeeps

\* A user logs in and talks to the agent.
NextConsole ==
    \/ LoginSubmit
    \/ LoginSucceed
    \/ \E c \in Chats : SendClick(c)
    \/ \E c \in Chats : SendEnter(c)
    \/ \E c \in Chats, executed \in BOOLEAN : AgentReply(c, executed)
    \/ \E c \in Chats : AgentFail(c)

SpecConsole == InitFrontend /\ [][NextConsole]_vars

\* ===================================================================== claims
HoldsCommand(c) == pc[c] \in {"Issued", "Pending"}

\* C1: at most one command is executing against the transport at any moment;
\* a command executes only while it owns the command lock.
C1_CommandMutualExclusion ==
    /\ Cardinality({c \in Cmds : HoldsCommand(c)}) <= 1
    /\ \A c \in Cmds : HoldsCommand(c) => command_lock = c

\* Two commands invoked concurrently: one is pending, the other still queued.
C1_Witness == pc["c1"] = "Pending" /\ pc["c2"] = "Queued"

\* C2: a get_status() or get_latest_image() call never waits longer than the
\* telemetry lock's timeout, and never waits for a command: in the middle of
\* a call the reader can either take its next step at once, or it is inside
\* its timed wait for the telemetry lock, which another telemetry user holds.
C2_ReadsNeverWaitForCommand ==
    \A r \in Readers :
        /\ waited[r] <= GET_STATUS_TIMEOUT
        /\ pc[r] # "idle" =>
              \/ ENABLED ReaderStep(r)
              \/ /\ pc[r] = "gs_wait"
                 /\ waited[r] < GET_STATUS_TIMEOUT
                 /\ data_lock \in (Readers \cup Dispatchers) \ {r}

\* A command is pending on its join while a reader has reached the end of
\* its timed wait for the telemetry lock.
C2_Witness ==
    /\ \E c \in Cmds : pc[c] = "Pending"
    /\ pc["r1"] = "gs_wait"
    /\ waited["r1"] = GET_STATUS_TIMEOUT

\* C3: no thread holds the telemetry lock and the command lock together.
C3_LocksNeverNested ==
    \A t \in Threads : ~(data_lock = t /\ command_lock = t)

\* Both locks are held at the same moment, by different threads.
C3_Witness == data_lock # Free /\ command_lock # Free

\* The step in which a command times out.
C4_TimeoutStep ==
    \A c \in Cmds :
        (pc[c] # "TimedOut" /\ pc'[c] = "TimedOut") =>
            /\ waited[c] = cmd[c].timeout
            /\ command_lock = c
            /\ command_lock' = Free
            /\ cmd_result'[c].kind = "CommandTimedOut"

\* A wait never outlasts its timeout, and a free lock admits a queued command.
C4_TimeoutState ==
    \A c \in Cmds :
        /\ CmdInFlight(c) => waited[c] <= cmd[c].timeout
        /\ (CmdInFlight(c) /\ Expired(c)) => ENABLED CmdTimeout(c)
        /\ pc[c] = "TimedOut" => command_lock # c
        /\ (pc[c] = "Queued" /\ command_lock = Free) => ENABLED CmdAcquire(c)

\* C4: a command whose wait reaches its caller-supplied timeout returns
\* CommandTimedOut exactly then, with the command lock released in the same
\* step, and a queued command can take the free lock at once.
C4_TimeoutReleasesLock == [][C4_TimeoutStep]_vars /\ []C4_TimeoutState

\* One command has timed out and the next one has taken the lock.
C4_Witness == pc["c1"] = "TimedOut" /\ pc["c2"] = "Issued"

Unsuccessful == {"Failed", "TimedOut"}

CacheConsistent ==
    /\ Len(image_cache) <= IMAGE_CACHE_MAXSIZE
    /\ data_lock = Free => cached_state = state

C5_FailStep ==
    \A c \in Cmds :
        (pc[c] \notin Unsuccessful /\ pc'[c] \in Unsuccessful) =>
            /\ command_lock' = Free
            /\ cmd_result'[c].kind \in {"CommandFailed", "CommandTimedOut"}
            /\ cmd_result'[c].message # "None"
            /\ UNCHANGED cacheVars

C5_FailState ==
    \A c \in Cmds :
        pc[c] \in Unsuccessful =>
            /\ command_lock # c
            /\ cmd_result[c] = CommandResult(pc[c])
            /\ CacheConsistent

\* C5: a command that fails (or times out) releases the command lock in the
\* step that returns, returns a structured error (kind + message), and leaves
\* the cached telemetry untouched and consistent.
C5_FailureReleasesLock == [][C5_FailStep]_vars /\ []C5_FailState

\* One command has failed and the next one has taken the lock.
C5_Witness == pc["c1"] = "Failed" /\ pc["c2"] = "Issued"

\* A take_latest() of reader r that has returned and that overlapped neither
\* a put nor another reader's take_latest(), on a slot whose last put did not
\* overlap a take_latest() either: the calls were made one after another.
CleanTake(r) == pc[r] = "idle" /\ take_view[r].clean

C7_PutBackStep ==
    \A r \in Readers :
        (pc[r] = "gi_putback" /\ pc'[r] = "idle" /\ take_view[r].clean
            /\ local[r] # NoFrame) =>
            /\ image_result'[r] = local[r]
            /\ image_cache' = <<local[r]>>

C7_SameTwice ==
    \A r \in Readers :
        (CleanTake(r) /\ take_view[r].prev_puts = take_view[r].start) =>
            image_result[r] = take_view[r].prev

\* C7: take_latest() is non-destructive: when it returns a value the slot
\* holds that value again, and a second take_latest() with no put in between
\* returns the same value as the first.
C7_TakeIsNonDestructive == [][C7_PutBackStep]_vars /\ []C7_SameTwice

\* Two consecutive reads of a cached frame with no put in between.
C7_Witness ==
    /\ CleanTake("r1")
    /\ take_view["r1"].prev_puts = take_view["r1"].start
    /\ take_view["r1"].prev # NoFrame
    /\ image_cache = <<take_view["r1"].prev>>

\* C8: put never waits, whatever the readers are doing, and the slot never
\* holds more than one value.
C8_PutNeverWaits ==
    /\ Len(image_cache) <= IMAGE_CACHE_MAXSIZE
    /\ \A d \in Dispatchers : pc[d] = "im_put" => ENABLED ImagePut(d)

\* A put is due while the slot is full and a reader is in the middle of its
\* drain-and-put-back.
C8_Witness ==
    /\ pc["d1"] = "im_put"
    /\ Len(image_cache) = IMAGE_CACHE_MAXSIZE
    /\ \E r \in Readers : pc[r] = "gi_putback"

\* The battery level the k-th applied state update carried (0: the state
\* cached at the start).
BatteryOfPush(k) == IF k = 0 THEN 855 ELSE push_log[k]

C9_StatusStep ==
    \A r \in Readers :
        (pc[r] \in {"gs_wait", "gs_locked"} /\ pc'[r] = "idle") =>
            /\ status_result'[r].success
            /\ status_result'[r].last_updated >= local[r]
            /\ status_result'[r].last_updated <= Len(push_log)
            /\ status_result'[r].battery = BatteryOfPush(status_result'[r].last_updated)

\* C9: a get_status() returns a state at least as recent as every update the
\* dispatcher had applied when the call began, also while a command holds the
\* command lock: an update pushed during the command is visible.
C9_UpdateVisibleDuringCommand == [][C9_StatusStep]_vars

\* Cached battery 85.5; a command takes the lock before any update; the
\* dispatcher pushes 80.0; get_status() returns 80.0 while the command is
\* still pending.
C9_Witness ==
    /\ \E c \in Cmds : pc[c] = "Pending" /\ local[c] = 0
    /\ status_result["r1"].success
    /\ status_result["r1"].battery = 800
    /\ status_result["r1"].last_updated = 1

C10_BusyStep ==
    /\ \A r \in Readers :
          (pc[r] = "gs_wait" /\ pc'[r] = "idle") =>
              /\ data_lock # Free
              /\ status_result'[r] =
                    [success |-> TRUE, connected |-> conn_state = "Connected",
                     battery |-> cached_state.battery,
                     last_updated |-> cached_state.last_updated,
                     note |-> "Using cached state (API busy)"]
              /\ UNCHANGED <<lockVars, cacheVars>>
    /\ \A d \in Dispatchers :
          (pc[d] = "sp_wait" /\ pc'[d] = "idle") =>
              UNCHANGED <<lockVars, cacheVars>>

C10_BusyState ==
    \A r \in Readers :
        /\ (pc[r] = "gs_wait" /\ Expired(r) /\ data_lock # Free) =>
               ENABLED GetStatusBusy(r)
        /\ status_result[r] # NoStatus => status_result[r].success

\* C10: a telemetry-path caller that cannot get the telemetry lock within its
\* timeout gives up that cycle: get_status() answers with the cached state
\* and success, the state monitor skips its update, and no read ever returns
\* an error.
C10_BusyServesCache == [][C10_BusyStep]_vars /\ []C10_BusyState

\* A get_status() that was answered from the cache while the dispatcher held
\* the lock in the middle of an update: the state already has the new value,
\* the reader got the previous one.
C10_Witness ==
    /\ status_result["r1"].note = "Using cached state (API busy)"
    /\ pc["d1"] = "st_swap"
    /\ status_result["r1"].last_updated < state.last_updated

\* C11: get_latest_image_blocking(timeout) returns either a frame that was
\* put after the call began or the timeout signal, never a frame that was
\* already in the slot when the call started.  Frames are numbered in the
\* order they are put, so a frame put after the call began has a number
\* above the count of frames put when the call began.
C11_BlockingTakeIsFresh ==
    [][\A r \in Readers :
          (pc[r] = "gb_wait" /\ pc'[r] = "idle") =>
              \/ image_result'[r] = TimeoutSignal
              \/ image_result'[r] \in (take_view[r].start + 1)..frames_put]_vars

\* A call that began with frame 1 in the slot has returned frame 2.
C11_Witness ==
    /\ pc["r1"] = "idle"
    /\ take_view["r1"].start = 1
    /\ image_result["r1"] = 2
    /\ image_cache = <<2>>

DropsUpdate(d) == pc[d] = "sp_wait" /\ pc'[d] = "idle"

\* The last cycle of dispatcher d gave up its update.
GaveUp(d) == pc[d] = "idle" /\ attempts[d] > 0

\* C13 as stated: a dispatcher that fails to acquire the telemetry lock
\* within its timeout retries exactly once, so an update is dropped only
\* after two acquisition attempts.
C13_DropAfterOneRetry ==
    \A d \in Dispatchers : GaveUp(d) => attempts[d] = 2

\* C13, amended: a dispatcher whose timed acquire of the telemetry lock
\* fails does not retry: the update is dropped after exactly one attempt,
\* when the wait has lasted the timeout and no longer, the caches are left
\* as they were, and no cycle ever makes a second attempt.
C13_DropWithoutRetry ==
    /\ [][\A d \in Dispatchers :
             DropsUpdate(d) => /\ attempts[d] = 1
                               /\ attempts'[d] = 1
                               /\ waited[d] = MONITOR_TIMEOUT
                               /\ data_lock # Free
                               /\ UNCHANGED cacheVars]_vars
    /\ [](\A d \in Dispatchers : attempts[d] <= 1 /\ waited[d] <= MONITOR_TIMEOUT)

\* The state monitor has given up an update while a reader holds the
\* telemetry lock.
C13_Witness ==
    /\ GaveUp("d1")
    /\ data_lock = "r1"
    /\ push_log = <<>>

\* C14: the dispatcher hands a snapshot to the RecordingSink only after it
\* has released the telemetry lock: whenever a callback makes its record_*
\* call, it does not hold the telemetry lock, before or after the call.
C14_RecordOutsideLock ==
    [][\A d \in Dispatchers :
          (pc[d] \in {"st_record", "im_record"} /\ pc'[d] = "idle") =>
              /\ data_lock # d
              /\ data_lock' # d]_vars

\* A recording holds a state snapshot and the image callback has handed in a
\* frame as well.
C14_Witness ==
    /\ is_recording
    /\ stats["states_recorded"] = 1
    /\ stats["images_recorded"] = 1
    /\ pc["d1"] = "idle"

Recorded == stats["states_recorded"] + stats["images_recorded"]

\* C16 as stated: a RecordingSink with queue depth K that has received K+M
\* entries reports exactly M dropped and K recorded.
C16_ExactDropCount ==
    submitted >= QueueDepth =>
        /\ stats["dropped"] = submitted - QueueDepth
        /\ Recorded = QueueDepth

\* C16, amended: a RecordingSink with queue depth K that receives K+M
\* entries while its worker takes none off the queue reports exactly M
\* dropped and K recorded; in every case recorded plus dropped equals the
\* number of entries submitted, every recorded entry is in the queue or
\* written, the queue never exceeds K, and a record_* call is never made
\* to wait.
C16_SinkAccounting ==
    /\ Recorded + stats["dropped"] = submitted
    /\ Recorded = written + Len(rec_queue)
    /\ Len(rec_queue) <= QueueDepth
    /\ (written = 0 /\ submitted >= QueueDepth) =>
           /\ stats["dropped"] = submitted - QueueDepth
           /\ Recorded = QueueDepth
    /\ \A d \in Dispatchers :
           /\ pc[d] = "st_record" => ENABLED StateRecord(d)
           /\ pc[d] = "im_record" => ENABLED ImageRecord(d)

\* A burst of K+2 entries met a worker that took nothing: two were dropped.
C16_Witness ==
    /\ is_recording
    /\ written = 0
    /\ submitted = QueueDepth + 2
    /\ stats["dropped"] = 2
    /\ Len(rec_queue) = QueueDepth

\* C17: the RecordingStats counters are reset by start_recording and do
\* not change between stop_recording and the next start_recording, even if
\* record_* calls arrive in that interval.
C17_StatsFrozenWhenStopped ==
    [][/\ (~is_recording /\ is_recording') =>
              (stats' = NoStats /\ rec_queue' = <<>>)
       /\ (~is_recording /\ ~is_recording') =>
              (stats' = stats /\ rec_queue' = rec_queue /\ written' = written)]_vars

\* A recording that counted entries has been stopped and the state callback
\* is at its record_state call.
C17_Witness ==
    /\ ~is_recording
    /\ Recorded > 0
    /\ stats["dropped"] > 0
    /\ pc["d1"] = "st_record"

\* Caller a makes a connect() call in this step.
Connects(a) == pc[a] = "idle" /\ pc'[a] = "cn_done"

\* C18: connect() called while already Connected succeeds without opening a
\* second transport connection or duplicating subscriptions, and connect()
\* called while another attempt is in flight fails with AlreadyConnecting;
\* no stream is ever subscribed twice.
C18_ConnectIdempotent ==
    /\ [][\A a \in Callers :
             /\ (Connects(a) /\ conn_state = "Connected") =>
                    /\ conn_result'[a] = "Ok"
                    /\ UNCHANGED <<conn_state, transport_opens, subscriptions>>
             /\ (Connects(a) /\ conn_state = "Connecting") =>
                    /\ conn_result'[a] = "AlreadyConnecting"
                    /\ UNCHANGED <<conn_state, transport_opens, subscriptions>>]_vars
    /\ [](\A t \in Topics : subscriptions[t] <= 1)

\* One caller was refused while an attempt was in flight, the other has
\* connected again on the established connection.
C18_Witness ==
    /\ conn_state = "Connected"
    /\ conn_result["a1"] = "Ok"
    /\ conn_result["a2"] = "AlreadyConnecting"
    /\ transport_opens = 1
    /\ subscriptions = [t \in Topics |-> 1]

\* Caller a makes a disconnect() call in this step.
Disconnects(a) == pc[a] = "idle" /\ pc'[a] = "dc_done"

LifecycleEdges ==
    {<<"Disconnected", "Connecting">>, <<"Connecting", "Connected">>,
     <<"Connected", "Disconnected">>}

\* C20 as stated: the connection state only ever changes along
\* Disconnected -> Connecting -> Connected -> Disconnected.
C20_OnlyLifecycleEdges ==
    [][conn_state' # conn_state => <<conn_state, conn_state'>> \in LifecycleEdges]_vars

\* C20, amended: the connection state only ever changes along
\* Disconnected -> Connecting -> Connected -> Disconnected, or from
\* Connecting straight back to Disconnected when the attempt fails or
\* disconnect() is called during it; in particular Connected is entered
\* only from Connecting, and Connecting only from Disconnected.
C20_LifecycleWithAbort ==
    /\ [][conn_state' # conn_state =>
             <<conn_state, conn_state'>> \in
                 LifecycleEdges \cup {<<"Connecting", "Disconnected">>}]_vars
    /\ [](conn_state \in ConnStates)

\* The lifecycle has been run through once and a second attempt is in
\* flight.
C20_Witness ==
    /\ conn_state = "Connecting"
    /\ transport_opens = 2
    /\ frames_put > 0

\* What C21 asks of a single step: the loss of the connection empties the
\* image slot and its mirror; a get_status() answered while the mediator is
\* not connected succeeds and says connected = false; a get_latest_image()
\* that begins while the mediator is not connected finds no frame.
C21_LossStep ==
    /\ (conn_state = "Connected" /\ conn_state' = "Disconnected") =>
           (image_cache' = <<>> /\ latest_image' = NoFrame)
    /\ \A r \in StatusReaders :
           (pc[r] \in {"gs_wait", "gs_locked"} /\ pc'[r] = "idle"
              /\ conn_state # "Connected") =>
                 (status_result'[r].success /\ ~status_result'[r].connected)
    /\ \A r \in StatusReaders :
           (pc[r] = "idle" /\ pc'[r] = "gi_putback" /\ conn_state # "Connected") =>
                 local'[r] = NoFrame

\* The mediator keeps answering: an idle caller can always begin a
\* get_status() or a get_latest_image().
C21_StillAnswering ==
    \A r \in StatusReaders :
        pc[r] = "idle" => (ENABLED GetStatusCall(r) /\ ENABLED TakeDrain(r))

\* C21: after the transport connection is lost, get_status() returns
\* connected = false and the caches are invalidated, so that reads no longer
\* return values from before the disconnection, and the mediator keeps
\* answering calls.
C21_LossInvalidatesCaches == [][C21_LossStep]_vars /\ []C21_StillAnswering

\* A command thread changes position by a fresh invocation (from idle or from
\* the final state of its previous command).
NewInvocation(c) ==
    /\ pc[c] \in {"idle"} \cup FinalStates
    /\ pc'[c] = "Queued"
    /\ cmd_result'[c] = NoResult

\* The edges of the command state machine; sync commands end in one of
\* `syncFinals`.
CommandEdge(c, syncFinals) ==
    \/ NewInvocation(c)
    \/ pc[c] = "Queued" /\ pc'[c] = "Issued"
    \/ pc[c] = "Issued" /\ cmd[c].kind = "Sync" /\ pc'[c] \in syncFinals
    \/ pc[c] = "Issued" /\ cmd[c].kind = "Async" /\ pc'[c] = "Pending"
    \/ pc[c] = "Pending" /\ cmd[c].kind = "Async" /\ pc'[c] \in FinalStates

C22_LiteralStep ==
    \A c \in Cmds : pc'[c] # pc[c] => CommandEdge(c, {"Completed", "Failed"})

C22_Step ==
    \A c \in Cmds : pc'[c] # pc[c] => CommandEdge(c, FinalStates)

\* The result of a finished command stays what it was when it finished.
C22_FinalStep ==
    \A c \in Cmds :
        (pc[c] \in FinalStates /\ pc'[c] = pc[c]) => cmd_result'[c] = cmd_result[c]

\* C22 as stated: a sync command goes Queued -> Issued -> Completed|Failed,
\* an async one Queued -> Issued -> Pending -> Completed|Failed|TimedOut, and
\* a command in Completed, Failed or TimedOut never changes again.
C22_SyncNeverTimesOut == [][C22_LiteralStep /\ C22_FinalStep]_vars

\* C22: every command moves Queued -> Issued -> Completed|Failed|TimedOut
\* when sync (a service call carries a timeout too) and Queued -> Issued ->
\* Pending -> Completed|Failed|TimedOut when async; a command in Completed,
\* Failed or TimedOut never changes again, the thread only starts a new one.
C22_CommandStateMachine == [][C22_Step /\ C22_FinalStep]_vars

\* One command has run to a final state and an async one is being joined.
C22_Witness ==
    /\ pc["c1"] \in FinalStates
    /\ pc["c2"] = "Pending" /\ cmd["c2"].kind = "Async"

\* The HTTP client (HttpClient) receives a 401 response to request q.
Receives401(q) ==
    /\ requests[q].client = "http"
    /\ requests[q].stage = "sent"
    /\ requests'[q].stage = "done"
    /\ requests'[q].status = 401

C23_Step ==
    \A q \in Requests :
        Receives401(q) =>
            /\ http_token' = NoToken
            /\ ls_token' = NoToken
            /\ ~isAuthenticated'
            /\ user' = NoUser

\* C23: whenever the frontend HTTP client receives a 401 response, the
\* access token is cleared from the client and from localStorage, and the
\* store ends up logged out (isAuthenticated false, user null).
C23_UnauthorizedLogsOut == [][C23_Step]_vars

C24_State ==
    logged_out =>
        /\ ls_token = NoToken
        /\ http_token = NoToken
        /\ api_token = NoToken

C24_Step ==
    \A q \in Requests :
        (logged_out /\ requests[q].stage # "sent" /\ requests'[q].stage = "sent") =>
            requests'[q].header = NoToken

\* C24: after logout localStorage no longer holds access_token and no API
\* client keeps the previous token, so no request sent after logout (and
\* before the next login) carries an Authorization header.
C24_LogoutClearsToken == []C24_State /\ [][C24_Step]_vars

\* The tool of call k has been run.
Executed(k) == calls[k].status \in {"executing", "success", "error"}

\* A call that must be confirmed: every operation in STRICT mode, the
\* dangerous ones in NORMAL mode, HIGH-risk ones always.
RequiresConfirmation(k) ==
    \/ approval_mode = "strict"
    \/ approval_mode = "normal" /\ Risk(calls[k].op) \in {"HIGH", "MEDIUM"}
    \/ Risk(calls[k].op) = "HIGH"

\* C25: a tool call that requires confirmation (every operation in STRICT
\* mode, dangerous ones in NORMAL mode, HIGH-risk ones always) is never
\* executed before the user has approved it, and never when the user chose
\* cancel.
C25_NoExecutionWithoutApproval ==
    \A k \in CallIds :
        (calls[k].op # "none" /\ Executed(k)) =>
            /\ RequiresConfirmation(k) =>
                   calls[k].outcome \in ConfirmationOutcomes \ {"cancel"}
            /\ calls[k].outcome # "cancel"

TaskEdges ==
    {<<"SUBMITTED", "WORKING">>, <<"WORKING", "INPUT_REQUIRED">>,
     <<"INPUT_REQUIRED", "WORKING">>}
      \cup ({"WORKING", "INPUT_REQUIRED"} \X TerminalStates)

C26_Step == task_state' # task_state => <<task_state, task_state'>> \in TaskEdges

\* C26: a task's state changes only along SUBMITTED -> WORKING,
\* WORKING <-> INPUT_REQUIRED, and from there to COMPLETED, FAILED or
\* CANCELLED; a task that is COMPLETED, FAILED or CANCELLED never changes.
C26_TaskStateMachine == [][C26_Step]_vars

\* A put-back that changes the slot leaves the last value put in it.
C27_PutBackStep ==
    \A r \in Readers :
        (pc[r] = "gi_putback" /\ pc'[r] = "idle" /\ image_cache' # image_cache) =>
            image_cache' = <<frames_put>>

\* A take_latest() that has returned, that began after the last put had
\* completed, with no put since.
TookAfterLastPut(r) ==
    /\ pc[r] = "idle"
    /\ take_view[r] # NoTake
    /\ take_view[r].start = frames_put
    /\ frames_put > 0

\* C27: when take_latest() runs concurrently with put(v), the drain and
\* replace never puts an older value back over v, and once put(v) has
\* completed with no later put, every subsequent take_latest() returns v.
C27_ConcurrentTakeKeepsLatest ==
    /\ [][C27_PutBackStep]_vars
    /\ [](\A r \in Readers : TookAfterLastPut(r) => image_result[r] = frames_put)

DisconnectCompleted ==
    /\ conn_state = "Disconnected"
    /\ \E a \in Callers : pc[a] = "dc_done"

\* C29: after disconnect() has completed every slot stays empty until the
\* next connect; a dispatcher update that was in flight when disconnect ran
\* cannot put a value into a cache afterwards.
C29_SlotsStayEmpty ==
    DisconnectCompleted => (image_cache = <<>> /\ latest_image = NoFrame)

\* The async command of thread c is being joined: it holds the command lock.
Joining(c) == pc[c] = "Pending" /\ command_lock = c

\* disconnect() can run whatever the command lock is doing.
C30_NotBlocked ==
    \A a \in Callers, c \in Cmds :
        (pc[a] = "idle" /\ Joining(c)) => ENABLED DisconnectCall(a)

\* A disconnect() that runs during the join completes and leaves the command
\* and its lock as they are.
C30_Step ==
    \A a \in Callers, c \in Cmds :
        (pc[a] = "idle" /\ pc'[a] = "dc_done" /\ Joining(c)) =>
            /\ conn_state' = "Disconnected"
            /\ conn_result'[a] = "Disconnected"
            /\ pc'[c] = "Pending"
            /\ command_lock' = c

\* C30: disconnect() called while an async command holds the command lock
\* still completes (it never waits for the command lock), and the
\* interrupted command still returns a result to its caller and releases
\* the command lock.
C30_DisconnectDuringCommand ==
    /\ []C30_NotBlocked
    /\ [][C30_Step]_vars
    /\ \A c \in Cmds :
         (Joining(c) /\ conn_state = "Disconnected") ~>
             (pc[c] \in FinalStates /\ cmd_result[c] # NoResult /\ command_lock # c)

\* disconnect() has completed while an async command is still being joined.
C30_Witness ==
    /\ Joining("c1")
    /\ cmd["c1"].kind = "Async"
    /\ pc["a1"] = "dc_done"
    /\ conn_state = "Disconnected"


\* The callers whose request to the service for res has not been answered.
InFlight(res) ==
    {f \in Fetchers : fetchers[f].stage = "awaiting" /\ fetchers[f].res = res}

\* Caller f calls the fetch of res in this step.
Calls(f, res) ==
    /\ fetchers[f].stage = "idle"
    /\ fetchers'[f] # fetchers[f]
    /\ fetchers'[f].res = res

C32_Step ==
    \A f \in Fetchers :
        (Calls(f, "drones") /\ InFlight("drones") # {})
            => /\ fetchers'[f].stage = "idle"
               /\ InFlight("drones")' = InFlight("drones")

\* C32: a fetchDrones() call made while an earlier one has not finished,
\* forced or not, returns without calling the drone service; at most one
\* drone-list request is in flight at any time.
C32_OneDroneFetchInFlight ==
    /\ [](Cardinality(InFlight("drones")) <= 1)
    /\ [][C32_Step]_vars

\* A forced fetchDrones() has returned while another caller's request is
\* still in flight.
C32_Witness ==
    \E f, g \in Fetchers :
        /\ f # g
        /\ fetchers[f].stage = "awaiting" /\ fetchers[f].res = "drones"
        /\ fetchers[g].res = "drones" /\ fetchers[g].outcome = "busy"
        /\ fetchers[g].force

C31_Step ==
    \A f \in Fetchers :
        (Calls(f, "tasks") /\ InFlight("tasks") # {})
            => /\ fetchers'[f].stage = "idle"
               /\ InFlight("tasks")' = InFlight("tasks")

\* C31: a fetchTasks() call made while an earlier one has not finished
\* returns without calling the task service; at most one task-list request
\* is in flight at any time.
C31_OneTaskFetchInFlight ==
    /\ [](Cardinality(InFlight("tasks")) <= 1)
    /\ [][C31_Step]_vars

\* The fetch timestamp of a list.
LastFetch(res) == IF res = "drones" THEN lastDronesFetch ELSE lastTasksFetch

\* The list res was fetched less than 30 s ago and the timestamp is kept.
FetchedRecently(res) ==
    /\ LastFetch(res) # NoFetch
    /\ now - LastFetch(res) < CACHE_TTL

\* A fetch that is not forced and finds the list fetched recently calls no
\* service and changes nothing in the store.
C33_CacheStep(f, res) ==
    (Calls(f, res) /\ ~fetchers'[f].force /\ FetchedRecently(res))
        => /\ fetchers'[f].stage = "idle"
           /\ UNCHANGED <<drones, tasks, lastDronesFetch, lastTasksFetch,
                          isLoadingDrones, isLoadingTasks, systemStats>>

C33_LiteralStep ==
    \A f \in Fetchers, res \in {"drones", "tasks"} :
        /\ C33_CacheStep(f, res)
        /\ (Calls(f, res) /\ res \in invalidated)
               => fetchers'[f].stage = "awaiting"

\* C33 as stated: within 30 s of the last successful fetch a fetch that is
\* not forced calls no service and leaves the store unchanged, and the first
\* fetch after invalidateCache() or logout() calls the service.
C33_InvalidationAlwaysRefetches == [][C33_LiteralStep]_vars

C33_Step ==
    \A f \in Fetchers, res \in {"drones", "tasks"} :
        /\ C33_CacheStep(f, res)
        /\ (Calls(f, res) /\ res \in invalidated /\ InFlight(res) = {})
               => fetchers'[f].stage = "awaiting"

\* C33 (amended): within 30 s of the last successful fetch a fetch that is
\* not forced calls no service and leaves the store unchanged; the first
\* fetch after invalidateCache() or logout() calls the service unless a
\* request for that list is still in flight.
C33_CacheAndInvalidation == [][C33_Step]_vars

\* One caller was answered from the cache; the drone list was fetched, its
\* timestamp forgotten, and the fetch after that is at the service.
C33_Witness ==
    \E f, g \in Fetchers :
        /\ fetchers[f].outcome = "cached"
        /\ fetchers[g].res = "drones" /\ fetchers[g].stage = "awaiting"
        /\ ~fetchers[g].force
        /\ drones # <<>>
        /\ lastDronesFetch = NoFetch

\* C34: after logout() the lists stay empty and the fetch timestamps stay
\* null until somebody logs in again; a fetch that was in flight at the
\* logout does not write the previous session's data back.
C34_LoggedOutStoreStaysEmpty ==
    logged_out =>
        /\ drones = <<>>
        /\ tasks = <<>>
        /\ lastDronesFetch = NoFetch
        /\ lastTasksFetch = NoFetch

C39_StatsAgreeWithStore ==
    /\ systemStats.totalDrones = Len(drones)
    /\ systemStats.activeTasks = Count(tasks, {"PENDING", "IN_PROGRESS"})

\* C38: while the Dashboard is mounted the drone list is requested from the
\* drone service at least once every 2 seconds: once the page has been
\* mounted for two ticks and no request is waiting for its answer, the last
\* request to the service was made in this tick or in the one before.
C38_DashboardPollsService ==
    (dashboard.mounted /\ now - dashboard.since >= 2 /\ ~isLoadingDrones)
        => now - loadingSince <= 1

\* C35: every pending request of HttpClient.request can be cancelled: the
\* AbortController stored under its key is its own, so that
\* cancelRequest(key) and cancelAllRequests() abort it, also when several
\* requests with the same method and endpoint are in flight.
C35_EveryPendingRequestCancellable ==
    \A q \in Requests :
        (pending[q].stage = "pending" /\ pending[q].key \in RequestKeys
                /\ ~pending[q].aborted)
            => abortControllers[pending[q].key] = q

\* C36: a request of ApiService that was answered 401 rejects with
\* 'Unauthorized': its caller never receives data for it.
C36_UnauthorizedRejects ==
    \A q \in Requests :
        (requests[q].client = "api" /\ requests[q].stage = "done"
                /\ requests[q].status = 401)
            => requests[q].result = "Unauthorized"

\* The messages of the console that await their reply.
Awaiting == {c \in Chats : chats[c] = "pending"}

\* C40: in the agent console at most one message awaits a reply at a time,
\* and each assistant reply stands directly after the user message it
\* answers.
C40_OneMessageAwaitsReply ==
    /\ Cardinality(Awaiting) <= 1
    /\ \A i \in DOMAIN messages :
           messages[i].role = "assistant"
               => /\ i > 1
                  /\ messages[i - 1] = [role |-> "user", chat |-> messages[i].chat]

====
